---- MODULE Spec2Model ----
(***************************************************************************)
(* Model of the workspace/node/message backend and of its summary          *)
(* pipeline (routers/summary.py): the document store, the CRUD handlers    *)
(* that other requests run, and one summarize_workspace call split at its  *)
(* await points and at each LLM invocation.                                *)
(***************************************************************************)
EXTENDS Integers, Sequences, FiniteSets, TLC

(***************************************************************************)
(* Bounds of the model.                                                    *)
(***************************************************************************)
\* Documents (workspaces, nodes, messages) created in one run; every collection
\* hands out its ObjectIds in creation order and never reuses one.
MaxDocuments == 4
\* Requests of other clients that complete while one summarization call runs.
MaxConcurrent == 1
\* Length of the texts given to the token budgeter.
MaxTextLen == 7
\* Token budgets given to the token budgeter: 0..MaxBudget.
MaxBudget == 2
\* Length of the key_points arrays given to the validator.
MaxKeyPoints == 4
\* Length of the sections arrays given to the validator.
MaxSections == 2
\* Length, in tokens, of the response texts given to the parser.
MaxResponseLen == 3
\* Documents of db.users.
MaxUsers == 3

(***************************************************************************)
(* Constants of the program.                                               *)
(***************************************************************************)
\* max_retries = 5
max_retries == 5
\* truncate_to_token_limit(combined_content, max_tokens=6000)
SummaryMaxTokens == 6000
\* .to_list(length=1000)
ToListLength == 1000

(***************************************************************************)
(* Identifiers.  An ObjectId is a positive integer, handed out in creation *)
(* order.  An id STRING, as a client sends it and as the handlers store it *)
(* in workspace_id / node_id, is one of the spellings of an ObjectId:      *)
(* str(ObjectId) is the lower-case hex spelling, and ObjectId(s) also      *)
(* accepts the same 24 hex digits in upper case.  Spelling 2*o is the      *)
(* lower-case one of ObjectId o, 2*o+1 the upper-case one; 0 is a string   *)
(* that is no ObjectId at all.                                             *)
(***************************************************************************)
MalformedId == 0

\* bson ObjectId.is_valid(s)
ObjectIdIsValid(s) == s >= 2

\* bson ObjectId(s): parses either spelling to the same ObjectId
ObjectId(s) == s \div 2

\* str(ObjectId): always the lower-case spelling
OidStr(o) == 2 * o

\* the spellings a client may send for ObjectId o
Spellings(o) == {2 * o, 2 * o + 1}

\* Optional[str] = None of the update schemas, for id-string fields
NoneId == -1

\* Optional[str] = None of the update schemas, for text fields
None == "<None>"

(***************************************************************************)
(* Inputs of the requests.                                                 *)
(***************************************************************************)
Users == {"u1", "u2"}

WorkspaceNames == {"W"}

NodeNames == {"N"}

\* model_id values a client may send: a persona and one outside "1".."6"
ModelIdInputs == {"1", "7"}

SenderInputs == {"AI", "Bot"}

ContentInputs == {"a", "b"}

\* TRUE while the store may still create a document
CanCreate(counters) ==
    counters.workspaces + counters.nodes + counters.messages < MaxDocuments

\* the id strings a client may send for a collection that has handed out n ids
IdStrings(n) == {MalformedId} \cup UNION {Spellings(o) : o \in 1..n}

\* the same, for a client that only sends ids as the API returned them
CanonicalIds(n) == {MalformedId} \cup {OidStr(o) : o \in 1..n}

(***************************************************************************)
(* Python string primitives.  A text is a TLA+ string.                     *)
(***************************************************************************)
Min(a, b) == IF a <= b THEN a ELSE b

Max(a, b) == IF a >= b THEN a ELSE b

\* text[:k], for any integer k (a negative k counts from the end)
PyPrefix(text, k) ==
    LET n == Len(text)
        e == IF k < 0 THEN Max(n + k, 0) ELSE Min(k, n)
    IN IF e = 0 THEN "" ELSE SubSeq(text, 1, e)

\* sub in text, for two strings
RECURSIVE PyContainsFrom(_, _, _)
PyContainsFrom(text, sub, i) ==
    IF i + Len(sub) - 1 > Len(text) THEN FALSE
    ELSE IF SubSeq(text, i, i + Len(sub) - 1) = sub THEN TRUE
    ELSE PyContainsFrom(text, sub, i + 1)

PyContains(text, sub) == sub = "" \/ PyContainsFrom(text, sub, 1)

\* c * n, a string of n copies of the one-character string c
RECURSIVE PyRepeat(_, _)
PyRepeat(c, n) ==
    IF n <= 0 THEN ""
    ELSE LET half == PyRepeat(c, n \div 2)
         IN half \o half \o (IF n % 2 = 1 THEN c ELSE "")

(***************************************************************************)
(* Token budgeter (routers/summary.py).                                    *)
(***************************************************************************)
estimate_tokens(text) == Len(text) \div 3

\* truncate_to_token_limit comparing the number of characters, not the
\* estimate, with the budget
truncate_to_token_limit_ByChars(text, max_tokens) ==
    LET max_chars == max_tokens * 3
    IN IF Len(text) <= max_chars
        THEN text
        ELSE PyPrefix(text, max_chars - 3) \o "..."

truncate_to_token_limit(text, max_tokens) ==
    LET current_tokens == estimate_tokens(text)
        max_chars == max_tokens * 3
    IN IF current_tokens <= max_tokens
        THEN text
        ELSE PyPrefix(text, max_chars - 3) \o "..."

(***************************************************************************)
(* JSON values, as json.loads returns them: a tagged value.  A dict is a   *)
(* record of its keys.                                                     *)
(***************************************************************************)
JStr(s) == [t |-> "str", v |-> s]

JNum(n) == [t |-> "num", v |-> n]

JArr(seq) == [t |-> "arr", v |-> seq]

JObj(rec) == [t |-> "obj", v |-> rec]

JNull == [t |-> "null"]

\* Python's name of a value's type, as exception messages print it
PyTypeName(x) ==
    CASE x.t = "str" -> "str"
      [] x.t = "num" -> "int"
      [] x.t = "arr" -> "list"
      [] x.t = "obj" -> "dict"
      [] OTHER -> "NoneType"

\* str(x)
RECURSIVE PyRepr(_)
RECURSIVE PyReprItems(_, _)
PyReprItems(seq, i) ==
    IF i > Len(seq) THEN ""
    ELSE (IF i > 1 THEN ", " ELSE "") \o PyRepr(seq[i]) \o PyReprItems(seq, i + 1)

\* repr(x); the repr of a dict lists its keys in the document's order, which
\* the record does not keep: a dict prints as "{...}"
PyRepr(x) ==
    CASE x.t = "str" -> "'" \o x.v \o "'"
      [] x.t = "num" -> ToString(x.v)
      [] x.t = "arr" -> "[" \o PyReprItems(x.v, 1) \o "]"
      [] x.t = "obj" -> "{...}"
      [] OTHER -> "None"

\* str() that quotes a string as repr() does
PyStr_Quoting(x) == PyRepr(x)

PyStr(x) == IF x.t = "str" THEN x.v ELSE PyRepr(x)

(***************************************************************************)
(* Response validator (routers/summary.py validate_json_format).  The      *)
(* result is [kind, msg]: kind "ok" is (True, ""), "invalid" is            *)
(* (False, msg), and "raised" is an exception with message msg.            *)
(***************************************************************************)
required_fields ==
    <<"executive_summary", "key_points", "sections", "conclusions",
      "recommendations">>

\* the operand types for which (field in json_data) raises TypeError
NotIterable(json_data) == json_data.t \notin {"obj", "arr", "str"}

\* field in json_data
PyIn(field, json_data) ==
    CASE json_data.t = "obj" -> field \in DOMAIN json_data.v
      [] json_data.t = "arr" ->
            \E i \in 1..Len(json_data.v) :
                json_data.v[i].t = "str" /\ json_data.v[i].v = field
      [] json_data.t = "str" -> PyContains(json_data.v, field)
      [] OTHER -> FALSE

\* the sections loop: the first (kind, msg) it returns, or "ok" past the end
RECURSIVE ValidateSections(_, _)
ValidateSections(sections, i) ==
    IF i > Len(sections) THEN [kind |-> "ok", msg |-> ""]
    ELSE LET section == sections[i]
             idx == ToString(i - 1)
         IN IF section.t # "obj"
            THEN [kind |-> "invalid",
                  msg |-> "sections[" \o idx \o "] must be an object"]
            ELSE IF \/ "title" \notin DOMAIN section.v
                    \/ "content" \notin DOMAIN section.v
                    \/ "points" \notin DOMAIN section.v
            THEN [kind |-> "invalid",
                  msg |-> "sections[" \o idx
                            \o "] must have title, content, and points"]
            ELSE IF section.v["points"].t # "arr"
            THEN [kind |-> "invalid",
                  msg |-> "sections[" \o idx \o "].points must be an array"]
            ELSE ValidateSections(sections, i + 1)

\* validate_json_format without the check on the number of key points
validate_json_format_NoLengthCheck(json_data) ==
    LET missing == {i \in 1..Len(required_fields) :
                        ~PyIn(required_fields[i], json_data)}
        first == CHOOSE i \in missing : \A j \in missing : i <= j
    IN IF NotIterable(json_data)
       THEN [kind |-> "raised",
             msg |-> "argument of type '" \o PyTypeName(json_data)
                        \o "' is not iterable"]
       ELSE IF missing # {}
       THEN [kind |-> "invalid",
             msg |-> "Missing required field: " \o required_fields[first]]
       ELSE IF json_data.t # "obj"
       THEN [kind |-> "raised",
             msg |-> "'" \o PyTypeName(json_data)
                        \o "' object has no attribute 'get'"]
       ELSE IF json_data.v["executive_summary"].t # "str"
       THEN [kind |-> "invalid", msg |-> "executive_summary must be a string"]
       ELSE IF json_data.v["key_points"].t # "arr"
       THEN [kind |-> "invalid", msg |-> "key_points must be an array"]
       ELSE IF json_data.v["sections"].t # "arr"
       THEN [kind |-> "invalid", msg |-> "sections must be an array"]
       ELSE IF ValidateSections(json_data.v["sections"].v, 1).kind # "ok"
       THEN ValidateSections(json_data.v["sections"].v, 1)
       ELSE IF json_data.v["conclusions"].t # "str"
       THEN [kind |-> "invalid", msg |-> "conclusions must be a string"]
       ELSE IF json_data.v["recommendations"].t # "arr"
       THEN [kind |-> "invalid", msg |-> "recommendations must be an array"]
       ELSE [kind |-> "ok", msg |-> ""]

\* validate_json_format naming the first required field whatever is missing
validate_json_format_NamesFirstField(json_data) ==
    LET missing == {i \in 1..Len(required_fields) :
                        ~PyIn(required_fields[i], json_data)}
        first == CHOOSE i \in missing : \A j \in missing : i <= j
    IN IF NotIterable(json_data)
       THEN [kind |-> "raised",
             msg |-> "argument of type '" \o PyTypeName(json_data)
                        \o "' is not iterable"]
       ELSE IF missing # {}
       THEN [kind |-> "invalid",
             msg |-> "Missing required field: " \o required_fields[1]]
       ELSE IF json_data.t # "obj"
       THEN [kind |-> "raised",
             msg |-> "'" \o PyTypeName(json_data)
                        \o "' object has no attribute 'get'"]
       ELSE IF json_data.v["executive_summary"].t # "str"
       THEN [kind |-> "invalid", msg |-> "executive_summary must be a string"]
       ELSE IF json_data.v["key_points"].t # "arr"
       THEN [kind |-> "invalid", msg |-> "key_points must be an array"]
       ELSE IF Len(json_data.v["key_points"].v) < 3
       THEN [kind |-> "invalid", msg |-> "key_points must have at least 3 items"]
       ELSE IF json_data.v["sections"].t # "arr"
       THEN [kind |-> "invalid", msg |-> "sections must be an array"]
       ELSE IF ValidateSections(json_data.v["sections"].v, 1).kind # "ok"
       THEN ValidateSections(json_data.v["sections"].v, 1)
       ELSE IF json_data.v["conclusions"].t # "str"
       THEN [kind |-> "invalid", msg |-> "conclusions must be a string"]
       ELSE IF json_data.v["recommendations"].t # "arr"
       THEN [kind |-> "invalid", msg |-> "recommendations must be an array"]
       ELSE [kind |-> "ok", msg |-> ""]

\* validate_json_format accepting two key points
validate_json_format_AtLeastTwo(json_data) ==
    LET missing == {i \in 1..Len(required_fields) :
                        ~PyIn(required_fields[i], json_data)}
        first == CHOOSE i \in missing : \A j \in missing : i <= j
    IN IF NotIterable(json_data)
       THEN [kind |-> "raised",
             msg |-> "argument of type '" \o PyTypeName(json_data)
                        \o "' is not iterable"]
       ELSE IF missing # {}
       THEN [kind |-> "invalid",
             msg |-> "Missing required field: " \o required_fields[first]]
       ELSE IF json_data.t # "obj"
       THEN [kind |-> "raised",
             msg |-> "'" \o PyTypeName(json_data)
                        \o "' object has no attribute 'get'"]
       ELSE IF json_data.v["executive_summary"].t # "str"
       THEN [kind |-> "invalid", msg |-> "executive_summary must be a string"]
       ELSE IF json_data.v["key_points"].t # "arr"
       THEN [kind |-> "invalid", msg |-> "key_points must be an array"]
       ELSE IF Len(json_data.v["key_points"].v) < 2
       THEN [kind |-> "invalid", msg |-> "key_points must have at least 3 items"]
       ELSE IF json_data.v["sections"].t # "arr"
       THEN [kind |-> "invalid", msg |-> "sections must be an array"]
       ELSE IF ValidateSections(json_data.v["sections"].v, 1).kind # "ok"
       THEN ValidateSections(json_data.v["sections"].v, 1)
       ELSE IF json_data.v["conclusions"].t # "str"
       THEN [kind |-> "invalid", msg |-> "conclusions must be a string"]
       ELSE IF json_data.v["recommendations"].t # "arr"
       THEN [kind |-> "invalid", msg |-> "recommendations must be an array"]
       ELSE [kind |-> "ok", msg |-> ""]

\* validate_json_format checking conclusions before sections
validate_json_format_ConclusionsFirst(json_data) ==
    LET missing == {i \in 1..Len(required_fields) :
                        ~PyIn(required_fields[i], json_data)}
        first == CHOOSE i \in missing : \A j \in missing : i <= j
    IN IF NotIterable(json_data)
       THEN [kind |-> "raised",
             msg |-> "argument of type '" \o PyTypeName(json_data)
                        \o "' is not iterable"]
       ELSE IF missing # {}
       THEN [kind |-> "invalid",
             msg |-> "Missing required field: " \o required_fields[first]]
       ELSE IF json_data.t # "obj"
       THEN [kind |-> "raised",
             msg |-> "'" \o PyTypeName(json_data)
                        \o "' object has no attribute 'get'"]
       ELSE IF json_data.v["executive_summary"].t # "str"
       THEN [kind |-> "invalid", msg |-> "executive_summary must be a string"]
       ELSE IF json_data.v["key_points"].t # "arr"
       THEN [kind |-> "invalid", msg |-> "key_points must be an array"]
       ELSE IF Len(json_data.v["key_points"].v) < 3
       THEN [kind |-> "invalid", msg |-> "key_points must have at least 3 items"]
       ELSE IF json_data.v["conclusions"].t # "str"
       THEN [kind |-> "invalid", msg |-> "conclusions must be a string"]
       ELSE IF json_data.v["sections"].t # "arr"
       THEN [kind |-> "invalid", msg |-> "sections must be an array"]
       ELSE IF ValidateSections(json_data.v["sections"].v, 1).kind # "ok"
       THEN ValidateSections(json_data.v["sections"].v, 1)
       ELSE IF json_data.v["recommendations"].t # "arr"
       THEN [kind |-> "invalid", msg |-> "recommendations must be an array"]
       ELSE [kind |-> "ok", msg |-> ""]

validate_json_format(json_data) ==
    LET missing == {i \in 1..Len(required_fields) :
                        ~PyIn(required_fields[i], json_data)}
        first == CHOOSE i \in missing : \A j \in missing : i <= j
    IN IF NotIterable(json_data)
       THEN [kind |-> "raised",
             msg |-> "argument of type '" \o PyTypeName(json_data)
                        \o "' is not iterable"]
       ELSE IF missing # {}
       THEN [kind |-> "invalid",
             msg |-> "Missing required field: " \o required_fields[first]]
       ELSE IF json_data.t # "obj"
       THEN [kind |-> "raised",
             msg |-> "'" \o PyTypeName(json_data)
                        \o "' object has no attribute 'get'"]
       ELSE IF json_data.v["executive_summary"].t # "str"
       THEN [kind |-> "invalid", msg |-> "executive_summary must be a string"]
       ELSE IF json_data.v["key_points"].t # "arr"
       THEN [kind |-> "invalid", msg |-> "key_points must be an array"]
       ELSE IF Len(json_data.v["key_points"].v) < 3
       THEN [kind |-> "invalid", msg |-> "key_points must have at least 3 items"]
       ELSE IF json_data.v["sections"].t # "arr"
       THEN [kind |-> "invalid", msg |-> "sections must be an array"]
       ELSE IF ValidateSections(json_data.v["sections"].v, 1).kind # "ok"
       THEN ValidateSections(json_data.v["sections"].v, 1)
       ELSE IF json_data.v["conclusions"].t # "str"
       THEN [kind |-> "invalid", msg |-> "conclusions must be a string"]
       ELSE IF json_data.v["recommendations"].t # "arr"
       THEN [kind |-> "invalid", msg |-> "recommendations must be an array"]
       ELSE [kind |-> "ok", msg |-> ""]

(***************************************************************************)
(* The text of an LLM response is a sequence of tokens: the code-fence     *)
(* marker (three backquotes), a literal piece of text, or the              *)
(* serialization of one JSON value.                                        *)
(***************************************************************************)
Lit(s) == [k |-> "lit", s |-> s, d |-> JNull]

Doc(d) == [k |-> "doc", s |-> "", d |-> d]

Fence == [k |-> "fence", s |-> "", d |-> JNull]

JsonTag == Lit("json")

Newline == Lit("\n")

IsSpace(tok) == tok.k = "lit" /\ tok.s \in {" ", "\n", "\t"}

\* text.strip()
RECURSIVE LStrip(_)
LStrip(text) ==
    IF text # <<>> /\ IsSpace(Head(text)) THEN LStrip(Tail(text)) ELSE text

RECURSIVE RStrip(_)
RStrip(text) ==
    IF text # <<>> /\ IsSpace(text[Len(text)])
    THEN RStrip(SubSeq(text, 1, Len(text) - 1))
    ELSE text

Strip(text) == RStrip(LStrip(text))

\* text.startswith(fence + "json"): the fence directly followed by the tag
StartsWithJsonFence(text) ==
    Len(text) >= 2 /\ text[1] = Fence /\ text[2] = JsonTag

\* text.startswith(fence)
StartsWithFence(text) == Len(text) >= 1 /\ text[1] = Fence

\* text.endswith(fence)
EndsWithFence(text) == Len(text) >= 1 /\ text[Len(text)] = Fence

\* StripFences without the removal of the closing fence
StripFences_OpeningOnly(response_content) ==
    LET c0 == Strip(response_content)
        c1 == IF StartsWithJsonFence(c0) THEN SubSeq(c0, 3, Len(c0)) ELSE c0
        c2 == IF StartsWithFence(c1) THEN SubSeq(c1, 2, Len(c1)) ELSE c1
    IN Strip(c2)

\* the three independent ifs that remove the code-fence markers
StripFences(response_content) ==
    LET c0 == Strip(response_content)
        c1 == IF StartsWithJsonFence(c0) THEN SubSeq(c0, 3, Len(c0)) ELSE c0
        c2 == IF StartsWithFence(c1) THEN SubSeq(c1, 2, Len(c1)) ELSE c1
        c3 == IF EndsWithFence(c2) THEN SubSeq(c2, 1, Len(c2) - 1) ELSE c2
    IN Strip(c3)

\* json.loads(text): [ok, value, msg]; JSON allows white space around the value
JsonLoads(text) ==
    LET body == SelectSeq(text, LAMBDA tok : ~IsSpace(tok))
    IN IF body = <<>> \/ body[1].k # "doc"
       THEN [ok |-> FALSE, value |-> JNull, msg |-> "Expecting value"]
       ELSE IF Len(body) > 1
       THEN [ok |-> FALSE, value |-> JNull, msg |-> "Extra data"]
       ELSE [ok |-> TRUE, value |-> body[1].d, msg |-> ""]

\* parse_and_validate_response: [json_data, error_msg], with json_data = None
\* written [ok |-> FALSE]
parse_and_validate_response(response_content) ==
    LET cleaned_response == StripFences(response_content)
        parsed == JsonLoads(cleaned_response)
        checked == validate_json_format(parsed.value)
    IN IF ~parsed.ok
       THEN [ok |-> FALSE, json_data |-> JNull,
             error_msg |-> "JSON parsing error: " \o parsed.msg]
       ELSE IF checked.kind = "raised"
       THEN [ok |-> FALSE, json_data |-> JNull,
             error_msg |-> "Error validating format: " \o checked.msg]
       ELSE IF checked.kind = "invalid"
       THEN [ok |-> FALSE, json_data |-> JNull, error_msg |-> checked.msg]
       ELSE [ok |-> TRUE, json_data |-> parsed.value, error_msg |-> ""]

(***************************************************************************)
(* Normalization into the output entity (summarize_workspace, the          *)
(* SummaryReport(...) expression; schemas.py SummaryReport).               *)
(***************************************************************************)
StrAll(arr) == [i \in 1..Len(arr.v) |-> PyStr(arr.v[i])]

SummarySection(section) ==
    [title |-> PyStr(section.v["title"]),
     content |-> PyStr(section.v["content"]),
     points |-> StrAll(section.v["points"])]

SummaryReport(json_data) ==
    [executive_summary |-> PyStr(json_data.v["executive_summary"]),
     key_points |-> StrAll(json_data.v["key_points"]),
     sections |-> [i \in 1..Len(json_data.v["sections"].v) |->
                        SummarySection(json_data.v["sections"].v[i])],
     conclusions |-> PyStr(json_data.v["conclusions"]),
     recommendations |-> StrAll(json_data.v["recommendations"])]

VARIABLES
    groq_client,     \* TRUE when GROQ_API_KEY was set at import (a client exists)
    db_workspaces,   \* db.workspaces: set of [id, user_id, name]
    db_nodes,        \* db.nodes: set of [id, user_id, workspace_id, name, model_id]
    db_messages,     \* db.messages: set of [id, node_id, sender, content]
    next_id,         \* per collection, the number of ObjectIds handed out so far
    sw,              \* the frame of the summarize_workspace call: its position
                     \* pc, its arguments, its locals and its response
    llm,             \* what the LLM client saw during that call: the number of
                     \* invocations, the prompts received, its last outcome,
                     \* how many of its outcomes were valid / not valid, and
                     \* the value of concurrent at its first and last invocation
    concurrent,      \* requests of other clients completed during that call
    observed,        \* the last call observed from outside, [op, args, result]:
                     \* a call of one of the module's functions, or a request
                     \* to a CRUD handler with its response
    requests,        \* the CRUD and register requests in progress: per task of
                     \* the event loop, the frame of the handler it runs
    db_users         \* db.users: set of [id, email]

store == <<db_workspaces, db_nodes, db_messages, next_id>>

vars == <<groq_client, store, sw, llm, concurrent, observed, requests, db_users>>

\* the tasks of the event loop that run CRUD and register handlers
Tasks == {"t1", "t2"}

\* the frame of a task that runs no handler
NoRequest == [pc |-> "idle"]

\* nothing was observed
Nothing == [op |-> "none", args |-> <<>>, result |-> <<>>]

(***************************************************************************)
(* Store queries, as the handlers issue them.                              *)
(***************************************************************************)
\* db.workspaces.find_one({"_id": ObjectId(workspace_id), "user_id": user_id})
FindWorkspace(workspace_id, user_id) ==
    {w \in db_workspaces : w.id = ObjectId(workspace_id) /\ w.user_id = user_id}

\* db.nodes.find_one({"_id": ObjectId(node_id), "user_id": user_id})
FindNode(node_id, user_id) ==
    {n \in db_nodes : n.id = ObjectId(node_id) /\ n.user_id = user_id}

\* db.messages.find_one({"_id": ObjectId(message_id)})
FindMessage(message_id) ==
    {m \in db_messages : m.id = ObjectId(message_id)}

\* the persona ids with "7" among the valid ones
ValidModelIds_UpToSeven == {"1", "2", "3", "4", "5", "6", "7"}

\* the valid persona ids, ["1", ..., "6"]
ValidModelIds == {"1", "2", "3", "4", "5", "6"}

\* the valid sender tags, ["AI", "You"]
ValidSenders == {"AI", "You"}

(***************************************************************************)
(* The CRUD handlers other requests run.  Each is one action: the request  *)
(* that passes every check of the handler and writes.  A request a handler *)
(* rejects (400/403/404) returns before any write and leaves the store as  *)
(* it is.                                                                  *)
(***************************************************************************)
\* routers/workspaces.py create_workspace
create_workspace(user_id, name) ==
    /\ CanCreate(next_id)
    /\ LET id == next_id.workspaces + 1 IN
        /\ db_workspaces' = db_workspaces \cup
                {[id |-> id, user_id |-> user_id, name |-> name]}
        /\ next_id' = [next_id EXCEPT !.workspaces = id]
    /\ UNCHANGED <<db_nodes, db_messages>>

\* routers/workspaces.py update_workspace
update_workspace(workspace_id, user_id, name) ==
    /\ ObjectIdIsValid(workspace_id)
    /\ FindWorkspace(workspace_id, user_id) # {}
    /\ name # None
    /\ db_workspaces' =
        {IF w.id = ObjectId(workspace_id) THEN [w EXCEPT !.name = name] ELSE w
            : w \in db_workspaces}
    /\ UNCHANGED <<db_nodes, db_messages, next_id>>

\* routers/workspaces.py delete_workspace
delete_workspace(workspace_id, user_id) ==
    /\ ObjectIdIsValid(workspace_id)
    /\ FindWorkspace(workspace_id, user_id) # {}
    /\ LET nodes == {n \in db_nodes : n.workspace_id = workspace_id}
           node_ids == {OidStr(n.id) : n \in nodes}
       IN
        /\ db_messages' = {m \in db_messages : m.node_id \notin node_ids}
        /\ db_nodes' = {n \in db_nodes : n.workspace_id # workspace_id}
        /\ db_workspaces' =
            {w \in db_workspaces : w.id # ObjectId(workspace_id)}
    /\ UNCHANGED next_id

\* routers/nodes.py create_node
create_node(user_id, workspace_id, name, model_id) ==
    /\ CanCreate(next_id)
    /\ ObjectIdIsValid(workspace_id)
    /\ FindWorkspace(workspace_id, user_id) # {}
    /\ model_id \in ValidModelIds
    /\ LET id == next_id.nodes + 1 IN
        /\ db_nodes' = db_nodes \cup
                {[id |-> id, user_id |-> user_id, workspace_id |-> workspace_id,
                  name |-> name, model_id |-> model_id]}
        /\ next_id' = [next_id EXCEPT !.nodes = id]
    /\ UNCHANGED <<db_workspaces, db_messages>>

\* update_node that writes every field of the request, supplied or not
update_node_WritesEveryField(node_id, user_id, workspace_id, name, model_id) ==
    /\ ObjectIdIsValid(node_id)
    /\ FindNode(node_id, user_id) # {}
    /\ workspace_id # NoneId =>
        /\ ObjectIdIsValid(workspace_id)
        /\ FindWorkspace(workspace_id, user_id) # {}
    /\ model_id # None => model_id \in ValidModelIds
    /\ \/ workspace_id # NoneId
       \/ name # None
       \/ model_id # None
    /\ db_nodes' =
        {IF n.id = ObjectId(node_id)
            THEN [n EXCEPT !.workspace_id = workspace_id, !.name = name,
                           !.model_id = model_id]
            ELSE n
            : n \in db_nodes}
    /\ UNCHANGED <<db_workspaces, db_messages, next_id>>

\* routers/nodes.py update_node
update_node(node_id, user_id, workspace_id, name, model_id) ==
    /\ ObjectIdIsValid(node_id)
    /\ FindNode(node_id, user_id) # {}
    /\ workspace_id # NoneId =>
        /\ ObjectIdIsValid(workspace_id)
        /\ FindWorkspace(workspace_id, user_id) # {}
    /\ model_id # None => model_id \in ValidModelIds
    /\ \/ workspace_id # NoneId
       \/ name # None
       \/ model_id # None
    /\ db_nodes' =
        {IF n.id = ObjectId(node_id)
            THEN [n EXCEPT
                    !.workspace_id =
                        IF workspace_id # NoneId THEN workspace_id ELSE @,
                    !.name = IF name # None THEN name ELSE @,
                    !.model_id = IF model_id # None THEN model_id ELSE @]
            ELSE n
            : n \in db_nodes}
    /\ UNCHANGED <<db_workspaces, db_messages, next_id>>

\* routers/nodes.py delete_node
delete_node(node_id, user_id) ==
    /\ ObjectIdIsValid(node_id)
    /\ FindNode(node_id, user_id) # {}
    /\ db_messages' = {m \in db_messages : m.node_id # node_id}
    /\ db_nodes' = {n \in db_nodes : n.id # ObjectId(node_id)}
    /\ UNCHANGED <<db_workspaces, next_id>>

\* routers/messages.py create_message
create_message(user_id, node_id, sender, content) ==
    /\ CanCreate(next_id)
    /\ sender \in ValidSenders
    /\ ObjectIdIsValid(node_id)
    /\ FindNode(node_id, user_id) # {}
    /\ LET id == next_id.messages + 1 IN
        /\ db_messages' = db_messages \cup
                {[id |-> id, node_id |-> node_id, sender |-> sender,
                  content |-> content]}
        /\ next_id' = [next_id EXCEPT !.messages = id]
    /\ UNCHANGED <<db_workspaces, db_nodes>>

\* routers/messages.py update_message
update_message(message_id, user_id, sender, content) ==
    /\ ObjectIdIsValid(message_id)
    /\ FindMessage(message_id) # {}
    /\ \A m \in FindMessage(message_id) :
        /\ ObjectIdIsValid(m.node_id)
        /\ FindNode(m.node_id, user_id) # {}
    /\ sender # None => sender \in ValidSenders
    /\ \/ sender # None
       \/ content # None
    /\ db_messages' =
        {IF m.id = ObjectId(message_id)
            THEN [m EXCEPT
                    !.sender = IF sender # None THEN sender ELSE @,
                    !.content = IF content # None THEN content ELSE @]
            ELSE m
            : m \in db_messages}
    /\ UNCHANGED <<db_workspaces, db_nodes, next_id>>

\* routers/messages.py delete_message
delete_message(message_id, user_id) ==
    /\ ObjectIdIsValid(message_id)
    /\ FindMessage(message_id) # {}
    /\ \A m \in FindMessage(message_id) :
        /\ ObjectIdIsValid(m.node_id)
        /\ FindNode(m.node_id, user_id) # {}
    /\ db_messages' = {m \in db_messages : m.id # ObjectId(message_id)}
    /\ UNCHANGED <<db_workspaces, db_nodes, next_id>>

(***************************************************************************)
(* Content aggregator and prompt builder (summarize_workspace).            *)
(***************************************************************************)
\* the set s of documents as a list sorted by _id ascending: .sort("_id", 1)
RECURSIVE SortById(_)
SortById(s) ==
    IF s = {} THEN <<>>
    ELSE LET first == CHOOSE d \in s : \A e \in s : d.id <= e.id
         IN <<first>> \o SortById(s \ {first})

\* cursor.to_list(length): at most length documents
ToList(seq, length) == SubSeq(seq, 1, Min(Len(seq), length))

\* db.nodes.find({"workspace_id": workspace_id, "user_id": user_id})
\*     .sort("_id", 1).to_list(length=1000)
FindNodesOfWorkspace(workspace_id, user_id) ==
    ToList(SortById({n \in db_nodes :
                        n.workspace_id = workspace_id /\ n.user_id = user_id}),
           ToListLength)

\* db.messages.find_one({"node_id": str(node["_id"])}, sort=[("_id", -1)]):
\* the set holding the newest such message, or the empty set (None)
FindLastMessage(node) ==
    LET of_node == {m \in db_messages : m.node_id = OidStr(node.id)}
    IN {m \in of_node : \A o \in of_node : o.id <= m.id}

\* the entry appended to messages_data for a node and its last message
MessageEntry(node, last_message) ==
    [node_name |-> node.name,
     node_id |-> OidStr(node.id),
     model_id |-> node.model_id,
     sender |-> last_message.sender,
     content |-> last_message.content]

\* the block the loop over enumerate(messages_data, 1) appends for entry idx
ConversationBlock(idx, msg) ==
    "=== Conversation " \o ToString(idx) \o ": " \o msg.node_name \o " ===\n"
    \o "Model ID: " \o msg.model_id \o "\n"
    \o "Sender: " \o msg.sender \o "\n"
    \o "Content:\n" \o msg.content \o "\n"
    \o "\n" \o PyRepeat("-", 80) \o "\n\n"

RECURSIVE ConversationBlocks(_, _)
ConversationBlocks(messages_data, idx) ==
    IF idx > Len(messages_data) THEN ""
    ELSE ConversationBlock(idx, messages_data[idx])
            \o ConversationBlocks(messages_data, idx + 1)

\* combined_content
CombinedContent(workspace, messages_data) ==
    "Workspace: " \o workspace.name \o "\n\n"
    \o PyRepeat("=", 80) \o "\n\n"
    \o ConversationBlocks(messages_data, 1)

\* create_prompt(), the f-string around truncated_content
create_prompt(truncated_content) ==
    "You are an expert analyst and information synthesizer. Your task is to "
    \o "analyze the following conversations and create a well-structured "
    \o "summary report in JSON format.\n"
    \o "\n"
    \o "Input data:\n"
    \o truncated_content \o "\n"
    \o "\n"
    \o "Requirements:\n"
    \o "1. Analyze and synthesize content from all conversations\n"
    \o "2. You MUST return ONLY valid JSON, no other text before or after\n"
    \o "3. The JSON must follow this exact structure:\n"
    \o "{\n"
    \o "  \"executive_summary\": \"A comprehensive summary of all "
    \o "conversations in 2-3 paragraphs\",\n"
    \o "  \"key_points\": [\n"
    \o "    \"Key point 1 as a string\",\n"
    \o "    \"Key point 2 as a string\",\n"
    \o "    \"Key point 3 as a string\"\n"
    \o "  ],\n"
    \o "  \"sections\": [\n"
    \o "    {\n"
    \o "      \"title\": \"Section title\",\n"
    \o "      \"content\": \"Section content description\",\n"
    \o "      \"points\": [\n"
    \o "        \"Point 1\",\n"
    \o "        \"Point 2\"\n"
    \o "      ]\n"
    \o "    }\n"
    \o "  ],\n"
    \o "  \"conclusions\": \"Main conclusions from the analysis\",\n"
    \o "  \"recommendations\": [\n"
    \o "    \"Recommendation 1\",\n"
    \o "    \"Recommendation 2\"\n"
    \o "  ]\n"
    \o "}\n"
    \o "4. All fields are required\n"
    \o "5. \"key_points\" must be an array of strings (at least 3 points)\n"
    \o "6. \"sections\" must be an array of objects with title, content, and "
    \o "points\n"
    \o "7. \"recommendations\" must be an array of strings (can be empty array "
    \o "if no recommendations)\n"
    \o "8. Preserve the meaning and context of the original conversations\n"
    \o "9. Use clear, professional English language\n"
    \o "\n"
    \o "Return ONLY the JSON object, no markdown formatting, no code blocks, "
    \o "just the raw JSON:"

\* the prompt of a call that read workspace and built messages_data
BuildPrompt(workspace, messages_data) ==
    create_prompt(
        truncate_to_token_limit(CombinedContent(workspace, messages_data),
                                SummaryMaxTokens))

(***************************************************************************)
(* The LLM client, as a test double: each invocation either raises an      *)
(* exception (not an HTTPException: the client library raises its own      *)
(* error types) or returns a completion with some text.                    *)
(***************************************************************************)
Section1 ==
    JObj([title |-> JStr("t"), content |-> JStr("c"),
          points |-> JArr(<<JStr("p"), JNum(7)>>)])

\* a well-formed report, one of its points a number
GoodDoc ==
    JObj([executive_summary |-> JStr("s1"),
          key_points |-> JArr(<<JStr("k1"), JStr("k2"), JStr("k3")>>),
          sections |-> JArr(<<Section1>>),
          conclusions |-> JStr("c1"),
          recommendations |-> JArr(<<JStr("r1")>>)])

\* a report with two key points only
ShortDoc ==
    JObj([executive_summary |-> JStr("s2"),
          key_points |-> JArr(<<JStr("k1"), JStr("k2")>>),
          sections |-> JArr(<<Section1>>),
          conclusions |-> JStr("c2"),
          recommendations |-> JArr(<<>>)])

Returned(content) == [raised |-> FALSE, content |-> content, message |-> ""]

Raised(message) == [raised |-> TRUE, content |-> <<>>, message |-> message]

\* a valid report inside a code fence, a report the validator rejects, a text
\* that is no JSON, and an exception
LLMOutcomes ==
    { Returned(<<Fence, JsonTag, Newline, Doc(GoodDoc), Newline, Fence>>),
      Returned(<<Doc(ShortDoc)>>),
      Returned(<<Lit("Sorry, I cannot do that.")>>),
      Raised("Connection error.") }

(***************************************************************************)
(* summarize_workspace (routers/summary.py), one action per stretch of     *)
(* code between two awaits of the store, and one per LLM invocation.       *)
(***************************************************************************)
NoWorkspace == [id |-> 0, user_id |-> "", name |-> ""]

NoReport ==
    [executive_summary |-> "", key_points |-> <<>>, sections |-> <<>>,
     conclusions |-> "", recommendations |-> <<>>]

\* the frame when no call is running
Idle ==
    [pc |-> "idle", workspace_id |-> MalformedId, user_id |-> "",
     workspace |-> NoWorkspace, nodes |-> <<>>, node_idx |-> 0,
     messages_data |-> <<>>, prompt |-> "", attempt |-> 0,
     last_error |-> None, status_code |-> 0, detail |-> "",
     summary_report |-> NoReport]

NoCalls ==
    [calls |-> 0, prompts |-> {}, last |-> Raised(""), valid |-> 0,
     failed |-> 0, at_first |-> 0, at_last |-> 0]

\* raise HTTPException(status_code, detail) out of the handler
RaiseHTTP(frame, status_code, detail) ==
    [frame EXCEPT !.pc = "done", !.status_code = status_code,
                  !.detail = detail]

\* return summary_report: 200 with the report as body
Return(frame, summary_report) ==
    [frame EXCEPT !.pc = "done", !.status_code = 200,
                  !.summary_report = summary_report]

\* the detail strings, with the Vietnamese ones written without diacritics
DetailNoKey == "GROQ_API_KEY chua duoc cau hinh"

DetailBadId == "Workspace ID khong hop le"

DetailNoWorkspace == "Workspace khong tim thay"

DetailNoNodes == "Khong tim thay node nao trong workspace nay"

DetailNoMessages == "Khong tim thay tin nhan nao trong cac node"

DetailInvalidJson(error_msg) ==
    "Failed to get valid JSON response after " \o ToString(max_retries)
    \o " attempts. Last error: " \o error_msg

DetailApiError(last_error) ==
    "Error calling Groq API after " \o ToString(max_retries)
    \o " attempts: " \o last_error

\* summarize_workspace with the check of the id before the one of the client
summarize_workspace_IdFirst(workspace_id, user_id) ==
    /\ sw.pc = "idle"
    /\ LET frame == [Idle EXCEPT !.workspace_id = workspace_id,
                                 !.user_id = user_id]
       IN sw' = IF ~ObjectIdIsValid(workspace_id)
                    THEN RaiseHTTP(frame, 400, DetailBadId)
                ELSE IF ~groq_client
                    THEN RaiseHTTP(frame, 500, DetailNoKey)
                ELSE [frame EXCEPT !.pc = "find_workspace"]
    /\ llm' = NoCalls
    /\ concurrent' = 0
    /\ UNCHANGED <<requests, db_users, observed, groq_client, store>>

\* entry of the handler up to its first await: the two checks on the
\* configuration and on the id
summarize_workspace(workspace_id, user_id) ==
    /\ sw.pc = "idle"
    /\ LET frame == [Idle EXCEPT !.workspace_id = workspace_id,
                                 !.user_id = user_id]
       IN sw' = IF ~groq_client
                    THEN RaiseHTTP(frame, 500, DetailNoKey)
                ELSE IF ~ObjectIdIsValid(workspace_id)
                    THEN RaiseHTTP(frame, 400, DetailBadId)
                ELSE [frame EXCEPT !.pc = "find_workspace"]
    /\ llm' = NoCalls
    /\ concurrent' = 0
    /\ UNCHANGED <<requests, db_users, observed, groq_client, store>>

\* sw_find_workspace answering 403, as get_message does for a foreign message
sw_find_workspace_Forbidden ==
    /\ sw.pc = "find_workspace"
    /\ LET found == FindWorkspace(sw.workspace_id, sw.user_id)
       IN sw' = IF found = {}
                    THEN RaiseHTTP(sw, 403, DetailNoWorkspace)
                ELSE [sw EXCEPT !.workspace = CHOOSE w \in found : TRUE,
                                !.pc = "find_nodes"]
    /\ UNCHANGED <<requests, db_users, observed, groq_client, store, llm, concurrent>>

\* workspace = await db.workspaces.find_one(...), and the check after it
sw_find_workspace ==
    /\ sw.pc = "find_workspace"
    /\ LET found == FindWorkspace(sw.workspace_id, sw.user_id)
       IN sw' = IF found = {}
                    THEN RaiseHTTP(sw, 404, DetailNoWorkspace)
                ELSE [sw EXCEPT !.workspace = CHOOSE w \in found : TRUE,
                                !.pc = "find_nodes"]
    /\ UNCHANGED <<requests, db_users, observed, groq_client, store, llm, concurrent>>

\* nodes = await db.nodes.find(...).sort(...).to_list(...), and the check
sw_find_nodes ==
    /\ sw.pc = "find_nodes"
    /\ LET nodes == FindNodesOfWorkspace(sw.workspace_id, sw.user_id)
       IN sw' = IF nodes = <<>>
                    THEN RaiseHTTP(sw, 404, DetailNoNodes)
                ELSE [sw EXCEPT !.nodes = nodes, !.node_idx = 1,
                                !.pc = "find_last_message"]
    /\ UNCHANGED <<requests, db_users, observed, groq_client, store, llm, concurrent>>

\* sw_find_last_message raising NotFound inside the loop, at the first node
\* that has no message
sw_find_last_message_RequiresMessage ==
    /\ sw.pc = "find_last_message"
    /\ LET node == sw.nodes[sw.node_idx]
           last_message == FindLastMessage(node)
           messages_data ==
                IF last_message # {}
                THEN Append(sw.messages_data,
                            MessageEntry(node, CHOOSE m \in last_message : TRUE))
                ELSE sw.messages_data
       IN sw' = IF last_message = {}
                    THEN RaiseHTTP(sw, 404, DetailNoMessages)
                ELSE IF sw.node_idx < Len(sw.nodes)
                    THEN [sw EXCEPT !.messages_data = messages_data,
                                    !.node_idx = @ + 1]
                ELSE [sw EXCEPT !.messages_data = messages_data,
                                !.prompt = BuildPrompt(sw.workspace,
                                                       messages_data),
                                !.attempt = 1,
                                !.pc = "attempt"]
    /\ UNCHANGED <<requests, db_users, observed, groq_client, store, llm, concurrent>>

\* one iteration of (for node in nodes): last_message = await find_one(...);
\* after the last node, the check on messages_data and the prompt
sw_find_last_message ==
    /\ sw.pc = "find_last_message"
    /\ LET node == sw.nodes[sw.node_idx]
           last_message == FindLastMessage(node)
           messages_data ==
                IF last_message # {}
                THEN Append(sw.messages_data,
                            MessageEntry(node, CHOOSE m \in last_message : TRUE))
                ELSE sw.messages_data
       IN sw' = IF sw.node_idx < Len(sw.nodes)
                    THEN [sw EXCEPT !.messages_data = messages_data,
                                    !.node_idx = @ + 1]
                ELSE IF messages_data = <<>>
                    THEN RaiseHTTP(sw, 404, DetailNoMessages)
                ELSE [sw EXCEPT !.messages_data = messages_data,
                                !.prompt = BuildPrompt(sw.workspace,
                                                       messages_data),
                                !.attempt = 1,
                                !.pc = "attempt"]
    /\ UNCHANGED <<requests, db_users, observed, groq_client, store, llm, concurrent>>

\* the messages_data a call would build from the store as it is now
RECURSIVE EntriesOf(_, _)
EntriesOf(nodes, i) ==
    IF i > Len(nodes) THEN <<>>
    ELSE (IF FindLastMessage(nodes[i]) = {} THEN <<>>
          ELSE <<MessageEntry(nodes[i],
                              CHOOSE m \in FindLastMessage(nodes[i]) : TRUE)>>)
         \o EntriesOf(nodes, i + 1)

\* the prompt the call would build if it read the store again now
RequestContent_Reread ==
    LET found == FindWorkspace(sw.workspace_id, sw.user_id)
        nodes == FindNodesOfWorkspace(sw.workspace_id, sw.user_id)
    IN IF found = {} THEN ""
       ELSE BuildPrompt(CHOOSE w \in found : TRUE, EntriesOf(nodes, 1))

\* the content of the user message of request_data
RequestContent == sw.prompt

\* what the double records of one invocation
Invoked(outcome) ==
    [calls |-> llm.calls + 1,
     prompts |-> llm.prompts \cup {RequestContent},
     last |-> outcome,
     valid |-> llm.valid +
        (IF ~outcome.raised /\ parse_and_validate_response(outcome.content).ok
            THEN 1 ELSE 0),
     failed |-> llm.failed +
        (IF ~outcome.raised /\ parse_and_validate_response(outcome.content).ok
            THEN 0 ELSE 1),
     at_first |-> IF llm.calls = 0 THEN concurrent ELSE llm.at_first,
     at_last |-> concurrent]

\* AfterAttempt with the loop bound off by one: range(1, max_retries + 2)
AfterAttempt_OneMoreRetry(frame, outcome) ==
    LET result == parse_and_validate_response(outcome.content)
    IN IF outcome.raised
        THEN IF frame.attempt < max_retries + 1
            THEN [frame EXCEPT !.last_error = outcome.message,
                               !.attempt = @ + 1]
            ELSE RaiseHTTP([frame EXCEPT !.last_error = outcome.message],
                           500, DetailApiError(outcome.message))
       ELSE IF ~result.ok
        THEN IF frame.attempt < max_retries + 1
            THEN [frame EXCEPT !.last_error = result.error_msg,
                               !.attempt = @ + 1]
            ELSE RaiseHTTP([frame EXCEPT !.last_error = result.error_msg],
                           500, DetailInvalidJson(result.error_msg))
       ELSE Return(frame, SummaryReport(result.json_data))

\* AfterAttempt giving up on the last attempt before it looks at the response
AfterAttempt_GivesUpOnLast(frame, outcome) ==
    LET result == parse_and_validate_response(outcome.content)
    IN IF outcome.raised
        THEN IF frame.attempt < max_retries
            THEN [frame EXCEPT !.last_error = outcome.message,
                               !.attempt = @ + 1]
            ELSE RaiseHTTP([frame EXCEPT !.last_error = outcome.message],
                           500, DetailApiError(outcome.message))
       ELSE IF frame.attempt = max_retries
        THEN RaiseHTTP([frame EXCEPT !.last_error = result.error_msg],
                       500, DetailInvalidJson(result.error_msg))
       ELSE IF ~result.ok
        THEN [frame EXCEPT !.last_error = result.error_msg, !.attempt = @ + 1]
       ELSE Return(frame, SummaryReport(result.json_data))

\* AfterAttempt re-raising an exception of the LLM client at once
AfterAttempt_ReraisesAtOnce(frame, outcome) ==
    LET result == parse_and_validate_response(outcome.content)
    IN IF outcome.raised
        THEN RaiseHTTP([frame EXCEPT !.last_error = outcome.message],
                       500, DetailApiError(outcome.message))
       ELSE IF ~result.ok
        THEN IF frame.attempt < max_retries
            THEN [frame EXCEPT !.last_error = result.error_msg,
                               !.attempt = @ + 1]
            ELSE RaiseHTTP([frame EXCEPT !.last_error = result.error_msg],
                           500, DetailInvalidJson(result.error_msg))
       ELSE Return(frame, SummaryReport(result.json_data))

\* AfterAttempt answering 404 when no attempt gave a valid report
AfterAttempt_NotFoundOnExhaustion(frame, outcome) ==
    LET result == parse_and_validate_response(outcome.content)
    IN IF outcome.raised
        THEN IF frame.attempt < max_retries
            THEN [frame EXCEPT !.last_error = outcome.message,
                               !.attempt = @ + 1]
            ELSE RaiseHTTP([frame EXCEPT !.last_error = outcome.message],
                           404, DetailApiError(outcome.message))
       ELSE IF ~result.ok
        THEN IF frame.attempt < max_retries
            THEN [frame EXCEPT !.last_error = result.error_msg,
                               !.attempt = @ + 1]
            ELSE RaiseHTTP([frame EXCEPT !.last_error = result.error_msg],
                           404, DetailInvalidJson(result.error_msg))
       ELSE Return(frame, SummaryReport(result.json_data))

\* AfterAttempt waiting for a further attempt after the last one failed,
\* without raising
AfterAttempt_WaitsAfterLast(frame, outcome) ==
    LET result == parse_and_validate_response(outcome.content)
    IN IF outcome.raised
        THEN IF frame.attempt < max_retries
            THEN [frame EXCEPT !.last_error = outcome.message,
                               !.attempt = @ + 1]
            ELSE [frame EXCEPT !.last_error = outcome.message,
                               !.pc = "waiting"]
       ELSE IF ~result.ok
        THEN IF frame.attempt < max_retries
            THEN [frame EXCEPT !.last_error = result.error_msg,
                               !.attempt = @ + 1]
            ELSE [frame EXCEPT !.last_error = result.error_msg,
                               !.pc = "waiting"]
       ELSE Return(frame, SummaryReport(result.json_data))

\* the frame after the body of (for attempt in range(1, max_retries + 1)) ran
\* once with the LLM client's outcome
AfterAttempt(frame, outcome) ==
    LET result == parse_and_validate_response(outcome.content)
    IN IF outcome.raised
        THEN \* except Exception as e
            IF frame.attempt < max_retries
            THEN [frame EXCEPT !.last_error = outcome.message,
                               !.attempt = @ + 1]
            ELSE RaiseHTTP([frame EXCEPT !.last_error = outcome.message],
                           500, DetailApiError(outcome.message))
       ELSE IF ~result.ok
        THEN \* json_data is None
            IF frame.attempt < max_retries
            THEN [frame EXCEPT !.last_error = result.error_msg,
                               !.attempt = @ + 1]
            ELSE RaiseHTTP([frame EXCEPT !.last_error = result.error_msg],
                           500, DetailInvalidJson(result.error_msg))
       ELSE Return(frame, SummaryReport(result.json_data))

\* one attempt: the LLM invocation and everything up to the next one
sw_attempt ==
    /\ sw.pc = "attempt"
    /\ \E outcome \in LLMOutcomes :
        /\ llm' = Invoked(outcome)
        /\ sw' = AfterAttempt(sw, outcome)
    /\ UNCHANGED <<requests, db_users, observed, groq_client, store, concurrent>>

\* the response leaves the server
sw_respond ==
    /\ sw.pc = "done"
    /\ sw' = Idle
    /\ llm' = NoCalls
    /\ concurrent' = 0
    /\ UNCHANGED <<requests, db_users, observed, groq_client, store>>

(***************************************************************************)
(* The system: the store starts empty; requests of other clients change    *)
(* it, also while a summarization call runs.  The handlers treat all users *)
(* alike: one user populates the store, and either user asks for the       *)
(* summary.                                                                *)
(***************************************************************************)
Init ==
    /\ groq_client \in BOOLEAN
    /\ db_workspaces = {}
    /\ db_nodes = {}
    /\ db_messages = {}
    /\ next_id = [workspaces |-> 0, nodes |-> 0, messages |-> 0]
    /\ sw = Idle
    /\ llm = NoCalls
    /\ concurrent = 0
    /\ observed = Nothing
    /\ requests = [t \in Tasks |-> NoRequest]
    /\ db_users = {}

Owners == {"u1"}

\* the requests of other clients
StoreRequest ==
    \E user_id \in Owners :
        \/ \E name \in WorkspaceNames : create_workspace(user_id, name)
        \/ \E workspace_id \in CanonicalIds(next_id.workspaces) :
            \/ delete_workspace(workspace_id, user_id)
            \/ \E name \in NodeNames, model_id \in ModelIdInputs :
                create_node(user_id, workspace_id, name, model_id)
        \/ \E node_id \in CanonicalIds(next_id.nodes) :
            delete_node(node_id, user_id)
        \/ \E node_id \in IdStrings(next_id.nodes),
              sender \in SenderInputs, content \in ContentInputs :
            create_message(user_id, node_id, sender, content)
        \/ \E message_id \in CanonicalIds(next_id.messages) :
            \/ \E content \in ContentInputs :
                update_message(message_id, user_id, None, content)
            \/ delete_message(message_id, user_id)

\* a request of another client, counted when a summarization call is running
Concurrently ==
    /\ sw.pc = "idle" \/ concurrent < MaxConcurrent
    /\ StoreRequest
    /\ concurrent' = IF sw.pc = "idle" THEN 0 ELSE concurrent + 1
    /\ UNCHANGED <<requests, db_users, observed, groq_client, sw, llm>>

Next ==
    \/ Concurrently
    \/ \E workspace_id \in IdStrings(next_id.workspaces), user_id \in Users :
        summarize_workspace(workspace_id, user_id)
    \/ sw_find_workspace
    \/ sw_find_nodes
    \/ sw_find_last_message
    \/ sw_attempt
    \/ sw_respond

Spec == Init /\ [][Next]_vars

\* a request of another client while no summarization call is running
BetweenCalls ==
    /\ sw.pc = "idle"
    /\ StoreRequest
    /\ UNCHANGED <<requests, db_users, observed, groq_client, sw, llm, concurrent>>

\* The system where the other clients' requests fall between the calls, and
\* where every step of a running call is eventually taken: the event loop
\* resumes the handler when the store answers, and each LLM invocation
\* returns or raises.
LiveNext ==
    \/ BetweenCalls
    \/ \E workspace_id \in IdStrings(next_id.workspaces), user_id \in Users :
        summarize_workspace(workspace_id, user_id)
    \/ sw_find_workspace
    \/ sw_find_nodes
    \/ sw_find_last_message
    \/ sw_attempt
    \/ sw_respond

LiveSpec ==
    /\ Init
    /\ [][LiveNext]_vars
    /\ WF_vars(sw_find_workspace)
    /\ WF_vars(sw_find_nodes)
    /\ WF_vars(sw_find_last_message)
    /\ WF_vars(sw_attempt)

(***************************************************************************)
(* The node handlers as their clients see them: every request, accepted or *)
(* rejected, with the status of its response.                              *)
(***************************************************************************)
\* the status create_node answers with (routers/nodes.py)
create_node_status(user_id, workspace_id, name, model_id) ==
    IF ~ObjectIdIsValid(workspace_id) THEN 400
    ELSE IF FindWorkspace(workspace_id, user_id) = {} THEN 404
    ELSE IF model_id \notin ValidModelIds THEN 400
    ELSE 201

\* the status update_node answers with (routers/nodes.py)
update_node_status(node_id, user_id, workspace_id, name, model_id) ==
    IF ~ObjectIdIsValid(node_id) THEN 400
    ELSE IF FindNode(node_id, user_id) = {} THEN 404
    ELSE IF workspace_id # NoneId /\ ~ObjectIdIsValid(workspace_id) THEN 400
    ELSE IF workspace_id # NoneId /\ FindWorkspace(workspace_id, user_id) = {}
        THEN 404
    ELSE IF model_id # None /\ model_id \notin ValidModelIds THEN 400
    ELSE 200

\* the persona ids clients send: two valid ones and one that is not
PersonaInputs == {"1", "6", "7"}

\* what is observed of a node request: the persona id it names, its status,
\* the status it gets when it names persona "1" instead, and whether it
\* changed the store
Observation(op, model_id, status_code, otherwise) ==
    [op |-> op,
     args |-> <<model_id>>,
     result |-> [status_code |-> status_code,
                 otherwise |-> otherwise,
                 stored |-> <<db_workspaces', db_nodes', db_messages'>>
                                # <<db_workspaces, db_nodes, db_messages>>]]

CreateNodeRequest ==
    /\ \E user_id \in Users, workspace_id \in CanonicalIds(next_id.workspaces),
          name \in NodeNames, model_id \in PersonaInputs :
        LET status_code ==
                create_node_status(user_id, workspace_id, name, model_id)
        IN /\ IF status_code = 201
                THEN create_node(user_id, workspace_id, name, model_id)
                ELSE UNCHANGED store
           /\ observed' =
                Observation("create_node", model_id, status_code,
                    create_node_status(user_id, workspace_id, name, "1"))
    /\ UNCHANGED <<requests, db_users, groq_client, sw, llm, concurrent>>

UpdateNodeRequest ==
    /\ \E user_id \in Users, node_id \in CanonicalIds(next_id.nodes),
          workspace_id \in {NoneId} \cup CanonicalIds(next_id.workspaces),
          name \in {None} \cup NodeNames,
          model_id \in {None} \cup PersonaInputs :
        LET status_code ==
                update_node_status(node_id, user_id, workspace_id, name,
                                   model_id)
        IN /\ IF status_code = 200
                    /\ (workspace_id # NoneId \/ name # None \/ model_id # None)
                THEN update_node(node_id, user_id, workspace_id, name, model_id)
                ELSE UNCHANGED store
           /\ observed' =
                Observation("update_node", model_id, status_code,
                    update_node_status(node_id, user_id, workspace_id, name,
                                       "1"))
    /\ UNCHANGED <<requests, db_users, groq_client, sw, llm, concurrent>>

\* the requests that prepare the store for the node requests
OtherRequest ==
    /\ \E user_id \in Owners, name \in WorkspaceNames :
        create_workspace(user_id, name)
    /\ UNCHANGED <<requests, db_users, observed, groq_client, sw, llm, concurrent>>

StoreNext ==
    \/ CreateNodeRequest
    \/ UpdateNodeRequest
    \/ OtherRequest

StoreSpec == Init /\ [][StoreNext]_vars

(***************************************************************************)
(* The functions of routers/summary.py called on their own: each step      *)
(* calls one of them on an input and records the input and the result.     *)
(* The functions keep no state, so a behaviour makes one call.             *)
(***************************************************************************)
\* the texts of n characters over a two-letter alphabet that has the dot
RECURSIVE TextsOfLen(_)
TextsOfLen(n) ==
    IF n = 0 THEN {""}
    ELSE {t \o c : t \in TextsOfLen(n - 1), c \in {"a", "."}}

Texts == UNION {TextsOfLen(n) : n \in 0..MaxTextLen}

\* no request is in progress and the store is empty
Quiet ==
    /\ groq_client = TRUE
    /\ db_workspaces = {}
    /\ db_nodes = {}
    /\ db_messages = {}
    /\ next_id = [workspaces |-> 0, nodes |-> 0, messages |-> 0]
    /\ sw = Idle
    /\ llm = NoCalls
    /\ concurrent = 0
    /\ requests = [t \in Tasks |-> NoRequest]
    /\ db_users = {}

FunctionInit == Quiet /\ observed = Nothing

CallTruncate ==
    /\ observed = Nothing
    /\ \E text \in Texts, max_tokens \in 0..MaxBudget :
        observed' = [op |-> "truncate_to_token_limit",
                     args |-> <<text, max_tokens>>,
                     result |-> truncate_to_token_limit(text, max_tokens)]
    /\ UNCHANGED <<requests, db_users, groq_client, store, sw, llm, concurrent>>

\* the values a client of the validator may give to each field; Absent
\* stands for a field the object does not have
Absent == [t |-> "absent", v |-> ""]

ScalarValues == {Absent, JStr("s"), JNum(1), JNull}

KeyPointsValues ==
    {Absent, JStr("k"), JArr(<<JStr("k"), JNum(2), JNull>>)}
    \cup {JArr([i \in 1..n |-> JStr("k")]) : n \in 0..MaxKeyPoints}

\* a section the validator accepts, and three it does not
SectionValues ==
    {Section1,
     JStr("x"),
     JObj([title |-> JStr("t"), points |-> JArr(<<>>)]),
     JObj([title |-> JStr("t"), content |-> JStr("c"), points |-> JStr("p")])}

RECURSIVE SeqsOfLen(_, _)
SeqsOfLen(S, n) ==
    IF n = 0 THEN {<<>>}
    ELSE {Append(q, x) : q \in SeqsOfLen(S, n - 1), x \in S}

SectionsValues ==
    {Absent, JStr("x")}
    \cup {JArr(q) : q \in UNION {SeqsOfLen(SectionValues, n) : n \in 0..MaxSections}}

RecommendationsValues == {Absent, JStr("r"), JArr(<<>>), JArr(<<JStr("r")>>)}

\* the JSON object with the given fields, without those that are Absent
JsonObject(all) ==
    JObj([f \in {g \in DOMAIN all : all[g].t # "absent"} |-> all[f]])

JsonObjects ==
    {JsonObject([executive_summary |-> es, key_points |-> kp, sections |-> se,
                 conclusions |-> co, recommendations |-> re]) :
        es \in ScalarValues, kp \in KeyPointsValues, se \in SectionsValues,
        co \in ScalarValues \ {JNull}, re \in RecommendationsValues}

CallValidate ==
    /\ observed = Nothing
    /\ \E json_data \in JsonObjects :
        observed' = [op |-> "validate_json_format",
                     args |-> <<json_data>>,
                     result |-> validate_json_format(json_data)]
    /\ UNCHANGED <<requests, db_users, groq_client, store, sw, llm, concurrent>>

\* the response texts: up to MaxResponseLen tokens, each a fence marker, the
\* word json, a line break, some other text, or a JSON document
ResponseTokens ==
    {Fence, JsonTag, Newline, Lit("x"), Doc(GoodDoc), Doc(ShortDoc)}

ResponseTexts ==
    UNION {SeqsOfLen(ResponseTokens, n) : n \in 0..MaxResponseLen}

\* optional white space
Spaces == {<<>>, <<Newline>>}

\* the opening fences: with the json tag, and bare
OpeningFences == {<<Fence, JsonTag>>, <<Fence>>}

\* R inside an opening and a closing fence, with white space around each part
Wrapped(R, opening, sp) ==
    sp[1] \o opening \o sp[2] \o R \o sp[3] \o <<Fence>> \o sp[4]

\* the parser called on a text as it is and on the same text inside fences
CallParse ==
    /\ observed = Nothing
    /\ \E R \in ResponseTexts, opening \in OpeningFences,
          sp \in [1..4 -> Spaces] :
        observed' =
            [op |-> "parse_and_validate_response",
             args |-> <<R, Wrapped(R, opening, sp)>>,
             result |-> <<parse_and_validate_response(R),
                          parse_and_validate_response(
                              Wrapped(R, opening, sp))>>]
    /\ UNCHANGED <<requests, db_users, groq_client, store, sw, llm, concurrent>>

\* reports as the LLM may return them: every field of the required type,
\* with strings as leaves in most and a number as a leaf in some
ReportKeyPoints ==
    {[i \in 1..n |-> JStr("k" \o ToString(i))] : n \in 3..MaxKeyPoints}
    \cup {<<JStr("k3"), JStr("k1"), JStr("k2")>>}

ReportSections ==
    {JObj([title |-> JStr("t1"), content |-> JStr(""), points |-> JArr(<<>>)]),
     JObj([title |-> JStr("t2"), content |-> JStr("c2"),
           points |-> JArr(<<JStr("p2"), JStr("p1")>>)]),
     Section1}

ReportDocs ==
    {JObj([executive_summary |-> JStr(es), key_points |-> JArr(kp),
           sections |-> JArr(se), conclusions |-> JStr("c"),
           recommendations |-> JArr(re)]) :
        es \in {"", "s"}, kp \in ReportKeyPoints,
        se \in UNION {SeqsOfLen(ReportSections, n) : n \in 0..MaxSections},
        re \in {<<>>, <<JStr("r2"), JStr("r1")>>, <<JNum(3)>>}}

\* validation followed by normalization, as summarize_workspace does with a
\* parsed response
CallNormalize ==
    /\ observed = Nothing
    /\ \E json_data \in ReportDocs :
        observed' =
            [op |-> "SummaryReport",
             args |-> <<json_data>>,
             result |-> [valid |-> validate_json_format(json_data),
                         summary_report |-> SummaryReport(json_data)]]
    /\ UNCHANGED <<requests, db_users, groq_client, store, sw, llm, concurrent>>

FunctionNext ==
    \/ CallTruncate
    \/ CallValidate
    \/ CallParse
    \/ CallNormalize

FunctionSpec == FunctionInit /\ [][FunctionNext]_vars

(***************************************************************************)
(* The CRUD handlers run concurrently.  The event loop runs each request   *)
(* as a task and switches tasks at the awaits of the store, so a handler   *)
(* is one action per store operation: the operation and the code that      *)
(* follows it up to the next await.  A request starts with its first store *)
(* operation (the checks of its arguments come before it) and its task is  *)
(* free again when the handler returns or raises.                          *)
(***************************************************************************)
\* the task t goes on with the frame, or is done
Await(t, frame) == requests' = [requests EXCEPT ![t] = frame]

Done(t) == requests' = [requests EXCEPT ![t] = NoRequest]

\* the variables no CRUD handler touches
rest == <<db_users, observed, groq_client, sw, llm, concurrent>>

\* routers/workspaces.py create_workspace: insert_one
cw_insert_one(t) ==
    /\ requests[t].pc = "idle"
    /\ \E user_id \in Owners, name \in WorkspaceNames :
        create_workspace(user_id, name)
    /\ UNCHANGED requests
    /\ UNCHANGED rest

\* routers/nodes.py create_node: find_one of the workspace, then the check
\* of model_id
cn_find_workspace(t) ==
    /\ requests[t].pc = "idle"
    /\ \E user_id \in Owners, workspace_id \in CanonicalIds(next_id.workspaces),
          name \in NodeNames, model_id \in ModelIdInputs :
        IF /\ ObjectIdIsValid(workspace_id)
           /\ FindWorkspace(workspace_id, user_id) # {}
           /\ model_id \in ValidModelIds
        THEN Await(t, [pc |-> "cn_insert_one", user_id |-> user_id,
                       workspace_id |-> workspace_id, name |-> name,
                       model_id |-> model_id])
        ELSE Done(t)
    /\ UNCHANGED store
    /\ UNCHANGED rest

\* create_node: insert_one
cn_insert_one(t) ==
    /\ requests[t].pc = "cn_insert_one"
    /\ CanCreate(next_id)
    /\ LET frame == requests[t]
           id == next_id.nodes + 1
       IN
        /\ db_nodes' = db_nodes \cup
                {[id |-> id, user_id |-> frame.user_id,
                  workspace_id |-> frame.workspace_id, name |-> frame.name,
                  model_id |-> frame.model_id]}
        /\ next_id' = [next_id EXCEPT !.nodes = id]
    /\ Done(t)
    /\ UNCHANGED <<db_workspaces, db_messages>>
    /\ UNCHANGED rest

\* update_node after its node was found: the checks of workspace_id that
\* need no store, then the find_one of the workspace
un_after_find_node(t, frame) ==
    IF frame.workspace_id # NoneId
    THEN IF ObjectIdIsValid(frame.workspace_id)
         THEN Await(t, [frame EXCEPT !.pc = "un_find_workspace"])
         ELSE Done(t)
    ELSE IF frame.model_id # None /\ frame.model_id \notin ValidModelIds
         THEN Done(t)
    ELSE IF frame.name # None \/ frame.model_id # None
         THEN Await(t, [frame EXCEPT !.pc = "un_update_one"])
    ELSE Await(t, [frame EXCEPT !.pc = "un_find_updated"])

\* routers/nodes.py update_node: find_one of the node
un_find_node(t) ==
    /\ requests[t].pc = "idle"
    /\ \E user_id \in Owners, node_id \in CanonicalIds(next_id.nodes),
          workspace_id \in {NoneId} \cup CanonicalIds(next_id.workspaces),
          model_id \in {None} :
        IF ObjectIdIsValid(node_id) /\ FindNode(node_id, user_id) # {}
        THEN un_after_find_node(t,
                [pc |-> "un_find_node", user_id |-> user_id,
                 node_id |-> node_id, workspace_id |-> workspace_id,
                 name |-> None, model_id |-> model_id])
        ELSE Done(t)
    /\ UNCHANGED store
    /\ UNCHANGED rest

\* update_node: find_one of the target workspace, then the check of model_id
un_find_workspace(t) ==
    /\ requests[t].pc = "un_find_workspace"
    /\ LET frame == requests[t] IN
        IF FindWorkspace(frame.workspace_id, frame.user_id) = {}
        THEN Done(t)
        ELSE IF frame.model_id # None /\ frame.model_id \notin ValidModelIds
        THEN Done(t)
        ELSE Await(t, [frame EXCEPT !.pc = "un_update_one"])
    /\ UNCHANGED store
    /\ UNCHANGED rest

\* update_node: update_one with $set of the fields supplied
un_update_one(t) ==
    /\ requests[t].pc = "un_update_one"
    /\ LET frame == requests[t] IN
        /\ db_nodes' =
            {IF n.id = ObjectId(frame.node_id)
                THEN [n EXCEPT
                        !.workspace_id =
                            IF frame.workspace_id # NoneId
                            THEN frame.workspace_id ELSE @,
                        !.name = IF frame.name # None THEN frame.name ELSE @,
                        !.model_id =
                            IF frame.model_id # None
                            THEN frame.model_id ELSE @]
                ELSE n
                : n \in db_nodes}
        /\ Await(t, [frame EXCEPT !.pc = "un_find_updated"])
    /\ UNCHANGED <<db_workspaces, db_messages, next_id>>
    /\ UNCHANGED rest

\* update_node: find_one of the updated node, and the response (a TypeError
\* when the node is gone)
un_find_updated(t) ==
    /\ requests[t].pc = "un_find_updated"
    /\ Done(t)
    /\ UNCHANGED store
    /\ UNCHANGED rest

\* routers/workspaces.py delete_workspace: find_one of the workspace
dw_find_workspace(t) ==
    /\ requests[t].pc = "idle"
    /\ \E user_id \in Owners,
          workspace_id \in CanonicalIds(next_id.workspaces) :
        IF /\ ObjectIdIsValid(workspace_id)
           /\ FindWorkspace(workspace_id, user_id) # {}
        THEN Await(t, [pc |-> "dw_find_nodes", user_id |-> user_id,
                       workspace_id |-> workspace_id, node_ids |-> {}])
        ELSE Done(t)
    /\ UNCHANGED store
    /\ UNCHANGED rest

\* delete_workspace: find of the nodes of the workspace; node_ids
dw_find_nodes(t) ==
    /\ requests[t].pc = "dw_find_nodes"
    /\ LET frame == requests[t]
           nodes == {n \in db_nodes : n.workspace_id = frame.workspace_id}
           node_ids == {OidStr(n.id) : n \in nodes}
       IN Await(t, [frame EXCEPT
                        !.pc = IF node_ids # {} THEN "dw_delete_messages"
                               ELSE "dw_delete_nodes",
                        !.node_ids = node_ids])
    /\ UNCHANGED store
    /\ UNCHANGED rest

\* delete_workspace: delete_many of the messages of node_ids
dw_delete_messages(t) ==
    /\ requests[t].pc = "dw_delete_messages"
    /\ db_messages' =
        {m \in db_messages : m.node_id \notin requests[t].node_ids}
    /\ Await(t, [requests[t] EXCEPT !.pc = "dw_delete_nodes"])
    /\ UNCHANGED <<db_workspaces, db_nodes, next_id>>
    /\ UNCHANGED rest

\* delete_workspace: delete_many of the nodes of the workspace
dw_delete_nodes(t) ==
    /\ requests[t].pc = "dw_delete_nodes"
    /\ db_nodes' =
        {n \in db_nodes : n.workspace_id # requests[t].workspace_id}
    /\ Await(t, [requests[t] EXCEPT !.pc = "dw_delete_workspace"])
    /\ UNCHANGED <<db_workspaces, db_messages, next_id>>
    /\ UNCHANGED rest

\* delete_workspace: delete_one of the workspace
dw_delete_workspace(t) ==
    /\ requests[t].pc = "dw_delete_workspace"
    /\ db_workspaces' =
        {w \in db_workspaces : w.id # ObjectId(requests[t].workspace_id)}
    /\ Done(t)
    /\ UNCHANGED <<db_nodes, db_messages, next_id>>
    /\ UNCHANGED rest

\* routers/nodes.py delete_node: find_one of the node
dn_find_node(t) ==
    /\ requests[t].pc = "idle"
    /\ \E user_id \in Owners, node_id \in CanonicalIds(next_id.nodes) :
        IF ObjectIdIsValid(node_id) /\ FindNode(node_id, user_id) # {}
        THEN Await(t, [pc |-> "dn_delete_messages", user_id |-> user_id,
                       node_id |-> node_id])
        ELSE Done(t)
    /\ UNCHANGED store
    /\ UNCHANGED rest

\* delete_node: delete_many of the messages of the node
dn_delete_messages(t) ==
    /\ requests[t].pc = "dn_delete_messages"
    /\ db_messages' = {m \in db_messages : m.node_id # requests[t].node_id}
    /\ Await(t, [requests[t] EXCEPT !.pc = "dn_delete_node"])
    /\ UNCHANGED <<db_workspaces, db_nodes, next_id>>
    /\ UNCHANGED rest

\* delete_node: delete_one of the node
dn_delete_node(t) ==
    /\ requests[t].pc = "dn_delete_node"
    /\ db_nodes' = {n \in db_nodes : n.id # ObjectId(requests[t].node_id)}
    /\ Done(t)
    /\ UNCHANGED <<db_workspaces, db_messages, next_id>>
    /\ UNCHANGED rest

\* routers/messages.py create_message: the check of sender, then find_one of
\* the node
cm_find_node(t) ==
    /\ requests[t].pc = "idle"
    /\ \E user_id \in Owners, node_id \in CanonicalIds(next_id.nodes),
          sender \in SenderInputs, content \in {"a"} :
        IF /\ sender \in ValidSenders
           /\ ObjectIdIsValid(node_id)
           /\ FindNode(node_id, user_id) # {}
        THEN Await(t, [pc |-> "cm_insert_one", user_id |-> user_id,
                       node_id |-> node_id, sender |-> sender,
                       content |-> content])
        ELSE Done(t)
    /\ UNCHANGED store
    /\ UNCHANGED rest

\* create_message: insert_one
cm_insert_one(t) ==
    /\ requests[t].pc = "cm_insert_one"
    /\ CanCreate(next_id)
    /\ LET frame == requests[t]
           id == next_id.messages + 1
       IN
        /\ db_messages' = db_messages \cup
                {[id |-> id, node_id |-> frame.node_id,
                  sender |-> frame.sender, content |-> frame.content]}
        /\ next_id' = [next_id EXCEPT !.messages = id]
    /\ Done(t)
    /\ UNCHANGED <<db_workspaces, db_nodes>>
    /\ UNCHANGED rest

\* one step of one task
ConcurrentNext ==
    \/ \E t \in Tasks : cw_insert_one(t)
    \/ \E t \in Tasks : cn_find_workspace(t)
    \/ \E t \in Tasks : cn_insert_one(t)
    \/ \E t \in Tasks : un_find_node(t)
    \/ \E t \in Tasks : un_find_workspace(t)
    \/ \E t \in Tasks : un_update_one(t)
    \/ \E t \in Tasks : un_find_updated(t)
    \/ \E t \in Tasks : dw_find_workspace(t)
    \/ \E t \in Tasks : dw_find_nodes(t)
    \/ \E t \in Tasks : dw_delete_messages(t)
    \/ \E t \in Tasks : dw_delete_nodes(t)
    \/ \E t \in Tasks : dw_delete_workspace(t)
    \/ \E t \in Tasks : dn_find_node(t)
    \/ \E t \in Tasks : dn_delete_messages(t)
    \/ \E t \in Tasks : dn_delete_node(t)
    \/ \E t \in Tasks : cm_find_node(t)
    \/ \E t \in Tasks : cm_insert_one(t)

ConcurrentSpec == FunctionInit /\ [][ConcurrentNext]_vars

(***************************************************************************)
(* The message readers (routers/messages.py), as their callers see them:   *)
(* two users fill the store, and each read is observed with its caller,    *)
(* its status and the messages it returns.                                 *)
(***************************************************************************)
\* MessageResponse(id=str(msg["_id"]), node_id=..., sender=..., content=...)
MessageResponse(msg) ==
    [id |-> OidStr(msg.id), node_id |-> msg.node_id, sender |-> msg.sender,
     content |-> msg.content]

\* map over a list of messages
RECURSIVE MessageResponses(_)
MessageResponses(messages) ==
    IF messages = <<>> THEN <<>>
    ELSE <<MessageResponse(Head(messages))>> \o MessageResponses(Tail(messages))

\* routers/messages.py get_messages: [status_code, body]
get_messages(node_id, user_id) ==
    IF node_id # NoneId /\ ~ObjectIdIsValid(node_id)
    THEN [status_code |-> 400, body |-> <<>>]
    ELSE IF node_id # NoneId /\ FindNode(node_id, user_id) = {}
    THEN [status_code |-> 404, body |-> <<>>]
    ELSE LET messages ==
                ToList(SortById({m \in db_messages :
                                    node_id # NoneId => m.node_id = node_id}),
                       ToListLength)
         IN [status_code |-> 200, body |-> MessageResponses(messages)]

\* routers/messages.py get_message: [status_code, body]
get_message(message_id, user_id) ==
    IF ~ObjectIdIsValid(message_id)
    THEN [status_code |-> 400, body |-> <<>>]
    ELSE IF FindMessage(message_id) = {}
    THEN [status_code |-> 404, body |-> <<>>]
    ELSE LET message == CHOOSE m \in FindMessage(message_id) : TRUE IN
        IF ~ObjectIdIsValid(message.node_id)
        THEN [status_code |-> 400, body |-> <<>>]
        ELSE IF FindNode(message.node_id, user_id) = {}
        THEN [status_code |-> 403, body |-> <<>>]
        ELSE [status_code |-> 200, body |-> <<MessageResponse(message)>>]

GetMessagesRequest ==
    /\ \E user_id \in Users,
          node_id \in {NoneId} \cup IdStrings(next_id.nodes) :
        observed' = [op |-> "get_messages", args |-> <<node_id, user_id>>,
                     result |-> get_messages(node_id, user_id)]
    /\ UNCHANGED <<requests, db_users, groq_client, store, sw, llm, concurrent>>

GetMessageRequest ==
    /\ \E user_id \in Users, message_id \in IdStrings(next_id.messages) :
        observed' = [op |-> "get_message", args |-> <<message_id, user_id>>,
                     result |-> get_message(message_id, user_id)]
    /\ UNCHANGED <<requests, db_users, groq_client, store, sw, llm, concurrent>>

\* the requests of the two users that fill the store
WriteRequest ==
    /\ \E user_id \in Users :
        \/ \E name \in WorkspaceNames : create_workspace(user_id, name)
        \/ \E workspace_id \in CanonicalIds(next_id.workspaces),
              name \in NodeNames :
            create_node(user_id, workspace_id, name, "1")
        \/ \E node_id \in CanonicalIds(next_id.nodes) :
            create_message(user_id, node_id, "You", "a")
    /\ UNCHANGED <<requests, db_users, observed, groq_client, sw, llm,
                   concurrent>>

ReadNext ==
    \/ WriteRequest
    \/ GetMessagesRequest
    \/ GetMessageRequest

ReadSpec == FunctionInit /\ [][ReadNext]_vars

(***************************************************************************)
(* register (routers/auth.py), run concurrently: one action per store      *)
(* operation, and each response observed.                                  *)
(***************************************************************************)
\* register: find_one by email, then the check of existing_user
rg_find_one(t) ==
    /\ requests[t].pc = "idle"
    /\ \E email \in {"a@x.io", "b@x.io", "c@x.io"} :
        IF \E u \in db_users : u.email = email
        THEN /\ Done(t)
             /\ observed' = [op |-> "register", args |-> <<email>>,
                             result |-> 400]
        ELSE /\ Await(t, [pc |-> "rg_insert_one", email |-> email])
             /\ UNCHANGED observed
    /\ UNCHANGED <<db_users, groq_client, store, sw, llm, concurrent>>

\* register: insert_one, and the response
rg_insert_one(t) ==
    /\ requests[t].pc = "rg_insert_one"
    /\ Cardinality(db_users) < MaxUsers
    /\ db_users' = db_users \cup
            {[id |-> Cardinality(db_users) + 1, email |-> requests[t].email]}
    /\ Done(t)
    /\ observed' = [op |-> "register", args |-> <<requests[t].email>>,
                    result |-> 201]
    /\ UNCHANGED <<groq_client, store, sw, llm, concurrent>>

RegisterNext ==
    \/ \E t \in Tasks : rg_find_one(t)
    \/ \E t \in Tasks : rg_insert_one(t)

RegisterSpec == FunctionInit /\ [][RegisterNext]_vars

(***************************************************************************)
(* update_node (routers/nodes.py) as its callers see it: two users fill    *)
(* the store, and each update_node request is observed with all its        *)
(* arguments and its status.  The requests come one after the other: the   *)
(* next one is sent when the response to an update_node was read.          *)
(***************************************************************************)
UpdateNodeCall ==
    /\ observed = Nothing
    /\ \E user_id \in Users, node_id \in CanonicalIds(next_id.nodes),
          workspace_id \in {NoneId} \cup CanonicalIds(next_id.workspaces),
          name \in {None, "M"}, model_id \in {None, "6", "7"} :
        LET status_code ==
                update_node_status(node_id, user_id, workspace_id, name,
                                   model_id)
        IN /\ IF status_code = 200
                    /\ (workspace_id # NoneId \/ name # None \/ model_id # None)
                THEN update_node(node_id, user_id, workspace_id, name, model_id)
                ELSE UNCHANGED store
           /\ observed' = [op |-> "update_node",
                           args |-> <<user_id, node_id, workspace_id, name,
                                      model_id>>,
                           result |-> status_code]
    /\ UNCHANGED <<requests, db_users, groq_client, sw, llm, concurrent>>

\* the requests of the two users that create workspaces and nodes
CreateRequest ==
    /\ observed = Nothing
    /\ \E user_id \in Users :
        \/ \E name \in WorkspaceNames : create_workspace(user_id, name)
        \/ \E workspace_id \in CanonicalIds(next_id.workspaces),
              name \in NodeNames :
            create_node(user_id, workspace_id, name, "1")
    /\ UNCHANGED <<requests, db_users, observed, groq_client, sw, llm,
                   concurrent>>

\* the caller has read the response to its update_node request
UpdateNodeReturned ==
    /\ observed # Nothing
    /\ observed' = Nothing
    /\ UNCHANGED <<requests, db_users, groq_client, store, sw, llm, concurrent>>

UpdateNext ==
    \/ CreateRequest
    \/ UpdateNodeCall
    \/ UpdateNodeReturned

UpdateSpec == FunctionInit /\ [][UpdateNext]_vars

(***************************************************************************)
(* Properties of summarize_workspace.                                      *)
(***************************************************************************)
\* the call has answered
Answered == sw.pc = "done"

\* why an invocation did not give a report: the message of the exception the
\* client raised, or the error the parser and validator give for the response
FailureReason(outcome) ==
    IF outcome.raised THEN outcome.message
    ELSE parse_and_validate_response(outcome.content).error_msg

\* C1: when no attempt yields a valid response the call has invoked the LLM
\* exactly max_retries (5) times, never more, and answers 500 with a detail
\* that carries the reason of the last failure and the number of attempts.
C1_ExhaustedAfterFiveAttempts ==
    /\ llm.calls <= max_retries
    /\ (Answered /\ llm.calls > 0 /\ llm.valid = 0) =>
        /\ llm.calls = max_retries
        /\ llm.failed = max_retries
        /\ sw.status_code = 500
        /\ sw.last_error = FailureReason(llm.last)
        /\ PyContains(sw.detail, FailureReason(llm.last))
        /\ PyContains(sw.detail, ToString(max_retries) \o " attempts")

C1_Witness ==
    /\ Answered
    /\ llm.calls = max_retries
    /\ llm.valid = 0
    /\ sw.status_code = 500
    /\ ~llm.last.raised

\* C2: the first valid response ends the loop: at most one invocation is
\* valid, it is the last one, the call answers 200 with the report built
\* from that response, and the LLM was invoked once per attempt up to it.
C2_FirstValidResponseEndsLoop ==
    /\ llm.valid <= 1
    /\ llm.valid = 1 =>
        /\ Answered
        /\ sw.status_code = 200
        /\ ~llm.last.raised
        /\ sw.summary_report =
            SummaryReport(JsonLoads(StripFences(llm.last.content)).value)
        /\ llm.calls = sw.attempt
        /\ llm.calls = llm.failed + 1

C2_Witness ==
    /\ Answered
    /\ sw.status_code = 200
    /\ llm.calls = max_retries
    /\ llm.failed = max_retries - 1

\* the structural rules of a summary document, stated on the parsed value
IsJStr(j) == j.t = "str"

IsJArr(j) == j.t = "arr"

WellFormedSection(section) ==
    /\ section.t = "obj"
    /\ {"title", "content", "points"} \subseteq DOMAIN section.v
    /\ IsJArr(section.v["points"])

PassesEveryCheck(json_data) ==
    /\ json_data.t = "obj"
    /\ \A i \in 1..Len(required_fields) : required_fields[i] \in DOMAIN json_data.v
    /\ IsJStr(json_data.v["executive_summary"])
    /\ IsJArr(json_data.v["key_points"])
    /\ Len(json_data.v["key_points"].v) >= 3
    /\ IsJArr(json_data.v["sections"])
    /\ \A i \in 1..Len(json_data.v["sections"].v) :
        WellFormedSection(json_data.v["sections"].v[i])
    /\ IsJStr(json_data.v["conclusions"])
    /\ IsJArr(json_data.v["recommendations"])

\* C3: a report is returned only for a response of the LLM that parsed as
\* JSON and passed every check of the validator; the report is built from
\* that response and from nothing else.
C3_ReportOnlyFromValidResponse ==
    (Answered /\ sw.status_code = 200) =>
        /\ llm.calls > 0
        /\ ~llm.last.raised
        /\ JsonLoads(StripFences(llm.last.content)).ok
        /\ PassesEveryCheck(JsonLoads(StripFences(llm.last.content)).value)
        /\ sw.summary_report =
            SummaryReport(JsonLoads(StripFences(llm.last.content)).value)

C3_Witness ==
    /\ Answered
    /\ sw.status_code = 200
    /\ llm.failed > 0
    /\ PassesEveryCheck(JsonLoads(StripFences(llm.last.content)).value)

\* C4: an exception of the LLM client on an attempt before the last does not
\* end the call: it is recorded as the last error and the next attempt
\* follows; the call answers with the API error only after attempt 5.
C4_TransportErrorIsRetried ==
    /\ (llm.calls > 0 /\ llm.calls < max_retries /\ llm.last.raised) =>
        /\ sw.pc = "attempt"
        /\ sw.attempt = llm.calls + 1
        /\ sw.last_error = llm.last.message
        /\ sw.status_code = 0
    /\ (Answered /\ sw.detail = DetailApiError(sw.last_error)) =>
        /\ llm.calls = max_retries
        /\ llm.last.raised

C4_Witness ==
    /\ llm.calls = 2
    /\ llm.last.raised
    /\ sw.pc = "attempt"
    /\ sw.attempt = 3
    /\ sw.last_error = llm.last.message

\* C5: without an LLM client the call answers 500 (configuration error) and
\* has done nothing else: no read of the store, no LLM invocation, whatever
\* the workspace id and whatever the store holds.
C5_NoClientNoWork ==
    ~groq_client =>
        /\ llm.calls = 0
        /\ sw.pc \in {"idle", "done"}
        /\ Answered =>
            /\ sw.status_code = 500
            /\ sw.detail = DetailNoKey
            /\ sw.workspace = NoWorkspace
            /\ sw.nodes = <<>>

C5_Witness ==
    /\ ~groq_client
    /\ Answered
    /\ sw.status_code = 500
    /\ ~ObjectIdIsValid(sw.workspace_id)
    /\ db_messages # {}

\* the cause of the answer of a finished call, from what the call met
Cause ==
    IF ~groq_client THEN "configuration"
    ELSE IF ~ObjectIdIsValid(sw.workspace_id) THEN "malformed id"
    ELSE IF sw.workspace = NoWorkspace THEN "no workspace"
    ELSE IF sw.nodes = <<>> THEN "no nodes"
    ELSE IF sw.messages_data = <<>> THEN "no messages"
    ELSE IF llm.valid = 0 THEN "exhausted"
    ELSE "report"

\* C6 as stated: 400 when the id is malformed or the configuration is
\* missing, 404 when the workspace, its nodes or their messages are not
\* found, 5xx when the attempts are exhausted.
C6_StatusPerCause_AsStated ==
    Answered =>
        /\ Cause \in {"malformed id", "configuration"} => sw.status_code = 400
        /\ Cause \in {"no workspace", "no nodes", "no messages"} =>
            sw.status_code = 404
        /\ Cause = "exhausted" => sw.status_code >= 500

\* C6: 400 when the id is malformed, 500 when the configuration is missing,
\* 404 when the workspace, its nodes or their messages are not found, 500
\* when the attempts are exhausted, and 200 otherwise.
C6_StatusPerCause ==
    Answered =>
        /\ Cause = "malformed id" => sw.status_code = 400
        /\ Cause = "configuration" => sw.status_code = 500
        /\ Cause \in {"no workspace", "no nodes", "no messages"} =>
            sw.status_code = 404
        /\ Cause = "exhausted" => sw.status_code = 500
        /\ Cause = "report" => sw.status_code = 200

C6_Witness ==
    /\ Answered
    /\ Cause = "configuration"
    /\ sw.status_code = 500
    /\ ObjectIdIsValid(sw.workspace_id)

\* C7: a call that answers 400 or 404 has not invoked the LLM.
C7_ClientErrorBeforeAnyLLMCall ==
    (Answered /\ sw.status_code \in {400, 404}) =>
        /\ llm.calls = 0
        /\ llm.prompts = {}

C7_Witness ==
    /\ Answered
    /\ sw.status_code = 404
    /\ sw.nodes # <<>>
    /\ groq_client

\* C8: every attempt of a call sends the same prompt, the one built from the
\* workspace and the messages read before the first attempt, whatever
\* happens to the store between the attempts.
C8_OneSnapshotPerCall ==
    /\ llm.calls > 0 => llm.prompts = {sw.prompt}
    /\ (llm.calls = 1 /\ concurrent = 0) =>
        llm.prompts = {RequestContent_Reread}
    /\ llm.calls = 1 =>
        sw.prompt = create_prompt(
            truncate_to_token_limit(
                CombinedContent(sw.workspace, sw.messages_data),
                SummaryMaxTokens))

C8_Witness ==
    /\ llm.calls >= 2
    /\ llm.at_first = 0
    /\ llm.at_last > 0
    /\ RequestContent_Reread # sw.prompt
    /\ RequestContent_Reread # ""

\* the nodes of a workspace and the messages of a node, by the ObjectId the
\* stored reference denotes
NodesOf(workspace) ==
    {n \in db_nodes : /\ ObjectIdIsValid(n.workspace_id)
                      /\ ObjectId(n.workspace_id) = workspace.id}

MessagesOf(node) ==
    {m \in db_messages : /\ ObjectIdIsValid(m.node_id)
                         /\ ObjectId(m.node_id) = node.id}

\* the store has not changed since the call began
Undisturbed == concurrent = 0

\* the call has read the workspace, its nodes and their messages
Aggregated == sw.workspace # NoWorkspace /\ sw.pc \in {"attempt", "done"}

RECURSIVE LatestOf(_)
LatestOf(nodes) ==
    IF nodes = <<>> THEN <<>>
    ELSE (IF MessagesOf(Head(nodes)) = {} THEN <<>>
          ELSE <<[node_id |-> OidStr(Head(nodes).id),
                  content |-> (CHOOSE m \in MessagesOf(Head(nodes)) :
                                \A o \in MessagesOf(Head(nodes)) :
                                    o.id <= m.id).content]>>)
         \o LatestOf(Tail(nodes))

\* the blocks the call aggregated
BlocksOf(messages_data) ==
    [i \in 1..Len(messages_data) |->
        [node_id |-> messages_data[i].node_id,
         content |-> messages_data[i].content]]

\* C10: the aggregated content holds exactly one block per node with at
\* least one message, in node creation order, each with the content of the
\* latest message of its node.
C10_LatestMessagePerNode ==
    (Undisturbed /\ sw.pc = "attempt" /\ llm.calls = 0) =>
        BlocksOf(sw.messages_data) = LatestOf(SortById(NodesOf(sw.workspace)))

(***************************************************************************)
(* Properties of the token budgeter.                                       *)
(***************************************************************************)
Truncated == observed.op = "truncate_to_token_limit"

\* text.endswith(suffix)
EndsWith(text, suffix) ==
    /\ Len(text) >= Len(suffix)
    /\ SubSeq(text, Len(text) - Len(suffix) + 1, Len(text)) = suffix

\* C11: a text whose estimate exceeds the budget max_tokens >= 0 is cut to
\* exactly max_tokens * 3 characters, the last three of them the marker "...".
C11_TruncationIsExact ==
    (Truncated /\ estimate_tokens(observed.args[1]) > observed.args[2]) =>
        /\ Len(observed.result) = observed.args[2] * 3
        /\ EndsWith(observed.result, "...")

\* C12: a text whose estimate floor(len / 3) is within the budget is returned
\* unchanged.
C12_IdentityBelowBudget ==
    (Truncated /\ estimate_tokens(observed.args[1]) <= observed.args[2]) =>
        observed.result = observed.args[1]

C12_Witness ==
    /\ Truncated
    /\ estimate_tokens(observed.args[1]) = observed.args[2]
    /\ Len(observed.args[1]) > observed.args[2] * 3
    /\ observed.args[2] > 0
    /\ observed.result = observed.args[1]

(***************************************************************************)
(* Properties of the validator.                                            *)
(***************************************************************************)
Validated == observed.op = "validate_json_format"

\* text.startswith(prefix)
StartsWith(text, prefix) ==
    Len(text) >= Len(prefix) /\ PyPrefix(text, Len(prefix)) = prefix

\* the required fields an object lacks
MissingFields(json_data) ==
    {required_fields[i] : i \in 1..Len(required_fields)} \ DOMAIN json_data.v

\* C13: an object that lacks one of the five required fields is rejected,
\* whatever the fields it has hold, with a message that names one of the
\* fields it lacks.
C13_MissingFieldRejected ==
    (Validated /\ MissingFields(observed.args[1]) # {}) =>
        /\ observed.result.kind = "invalid"
        /\ \E f \in MissingFields(observed.args[1]) :
            observed.result.msg = "Missing required field: " \o f

C13_Witness ==
    /\ Validated
    /\ MissingFields(observed.args[1]) = {"sections", "recommendations"}
    /\ observed.args[1].v["executive_summary"].t = "num"
    /\ observed.result.msg = "Missing required field: sections"

\* the value of a field, None (null) when the object lacks it
FieldOf(json_data, f) ==
    IF f \in DOMAIN json_data.v THEN json_data.v[f] ELSE JNull

\* the six checks, each stated on its own
ViolatesSection(section) ==
    \/ section.t # "obj"
    \/ ~({"title", "content", "points"} \subseteq DOMAIN section.v)
    \/ section.v["points"].t # "arr"

Violates(n, json_data) ==
    CASE n = 1 -> MissingFields(json_data) # {}
      [] n = 2 -> FieldOf(json_data, "executive_summary").t # "str"
      [] n = 3 -> \/ FieldOf(json_data, "key_points").t # "arr"
                  \/ Len(FieldOf(json_data, "key_points").v) < 3
      [] n = 4 -> \/ FieldOf(json_data, "sections").t # "arr"
                  \/ \E i \in 1..Len(FieldOf(json_data, "sections").v) :
                        ViolatesSection(FieldOf(json_data, "sections").v[i])
      [] n = 5 -> FieldOf(json_data, "conclusions").t # "str"
      [] n = 6 -> FieldOf(json_data, "recommendations").t # "arr"

\* C14: with the other four fields valid, an array key_points of length 0, 1
\* or 2 is rejected and one of length 3 or more is accepted.
C14_AtLeastThreeKeyPoints ==
    (/\ Validated
     /\ \A n \in {1, 2, 4, 5, 6} : ~Violates(n, observed.args[1])
     /\ observed.args[1].v["key_points"].t = "arr") =>
        IF Len(observed.args[1].v["key_points"].v) >= 3
        THEN observed.result.kind = "ok"
        ELSE observed.result.kind = "invalid"

C14_Witness ==
    /\ Validated
    /\ \A n \in {1, 2, 4, 5, 6} : ~Violates(n, observed.args[1])
    /\ observed.args[1].v["key_points"].t = "arr"
    /\ Len(observed.args[1].v["key_points"].v) = 3
    /\ observed.args[1].v["sections"].v # <<>>
    /\ observed.result.kind = "ok"

\* the field the check number n is about
CheckedField(n) ==
    <<"", "executive_summary", "key_points", "sections", "conclusions",
      "recommendations">>[n]

\* the first element of sections that violates check 4, 0 when sections is
\* no array
FirstOffending(json_data) ==
    IF FieldOf(json_data, "sections").t # "arr" THEN 0
    ELSE CHOOSE i \in 1..Len(json_data.v["sections"].v) :
            /\ ViolatesSection(json_data.v["sections"].v[i])
            /\ \A j \in 1..(i - 1) :
                ~ViolatesSection(json_data.v["sections"].v[j])

\* C15: the result is that of the first violated check in the order 1..6:
\* the message names the field of that check (a missing field for check 1)
\* and, for an element of sections, the index of the first offending element;
\* an object that violates no check is accepted.
C15_FirstViolatedCheckReported ==
    Validated =>
        LET json_data == observed.args[1]
            violated == {n \in 1..6 : Violates(n, json_data)}
            first == CHOOSE n \in violated : \A m \in violated : n <= m
        IN IF violated = {} THEN observed.result.kind = "ok"
           ELSE /\ observed.result.kind = "invalid"
                /\ first = 1 =>
                    \E f \in MissingFields(json_data) :
                        EndsWith(observed.result.msg, " " \o f)
                /\ first > 1 =>
                    StartsWith(observed.result.msg, CheckedField(first))
                /\ (first = 4 /\ FirstOffending(json_data) > 0) =>
                    StartsWith(observed.result.msg,
                        "sections["
                        \o ToString(FirstOffending(json_data) - 1) \o "]")
                /\ (first = 4 /\ FirstOffending(json_data) = 0) =>
                    observed.result.msg = "sections must be an array"

C15_Witness ==
    /\ Validated
    /\ {n \in 1..6 : Violates(n, observed.args[1])} = {4, 5, 6}
    /\ FirstOffending(observed.args[1]) = 2
    /\ StartsWith(observed.result.msg, "sections[1]")

(***************************************************************************)
(* Properties of the parser.                                               *)
(***************************************************************************)
Parsed == observed.op = "parse_and_validate_response"

\* C16 as stated: for every text R, the parser gives the same result for R
\* inside an opening and a closing fence as for R itself.
C16_FencesAreTransparent_AsStated ==
    Parsed => observed.result[2] = observed.result[1]

\* the text holds no fence marker and does not begin with the word json
FreeOfFences(R) ==
    /\ \A i \in 1..Len(R) : R[i] # Fence
    /\ R # <<>> => R[1] # JsonTag

\* C16: for every text R that holds no fence marker and does not begin with
\* the word json, the parser gives the same result for R inside an opening
\* and a closing fence, with optional white space around, as for R itself.
C16_FencesAreTransparent ==
    (Parsed /\ FreeOfFences(observed.args[1])) =>
        observed.result[2] = observed.result[1]

C16_Witness ==
    /\ Parsed
    /\ observed.args[1] = <<Newline, Doc(GoodDoc)>>
    /\ observed.args[2][1] = Newline
    /\ observed.args[2][3] = JsonTag
    /\ observed.result[1].ok
    /\ observed.result[2] = observed.result[1]

(***************************************************************************)
(* Properties of the normalization.                                        *)
(***************************************************************************)
Normalized == observed.op = "SummaryReport"

\* every element of a JSON array is a string
AllStrings(arr) == \A i \in 1..Len(arr.v) : arr.v[i].t = "str"

\* every leaf of the report is a string
StringLeaves(json_data) ==
    /\ AllStrings(json_data.v["key_points"])
    /\ AllStrings(json_data.v["recommendations"])
    /\ \A i \in 1..Len(json_data.v["sections"].v) :
        /\ json_data.v["sections"].v[i].v["title"].t = "str"
        /\ json_data.v["sections"].v[i].v["content"].t = "str"
        /\ AllStrings(json_data.v["sections"].v[i].v["points"])

\* the value at position i of a list of strings equals the JSON string at
\* the same position of the array, and both are as long
SameStrings(list, arr) ==
    /\ Len(list) = Len(arr.v)
    /\ \A i \in 1..Len(list) : list[i] = arr.v[i].v

\* C17: a well-formed response whose leaves are all strings passes the
\* validator and is normalized into a report with the same five values:
\* same strings, same order, same lengths.
C17_RoundTrip ==
    (Normalized /\ StringLeaves(observed.args[1])) =>
        LET json_data == observed.args[1]
            report == observed.result.summary_report
        IN /\ observed.result.valid.kind = "ok"
           /\ report.executive_summary = json_data.v["executive_summary"].v
           /\ SameStrings(report.key_points, json_data.v["key_points"])
           /\ report.conclusions = json_data.v["conclusions"].v
           /\ SameStrings(report.recommendations,
                          json_data.v["recommendations"])
           /\ Len(report.sections) = Len(json_data.v["sections"].v)
           /\ \A i \in 1..Len(report.sections) :
                /\ report.sections[i].title =
                    json_data.v["sections"].v[i].v["title"].v
                /\ report.sections[i].content =
                    json_data.v["sections"].v[i].v["content"].v
                /\ SameStrings(report.sections[i].points,
                               json_data.v["sections"].v[i].v["points"])

C17_Witness ==
    /\ Normalized
    /\ StringLeaves(observed.args[1])
    /\ Len(observed.result.summary_report.key_points) = 3
    /\ Len(observed.result.summary_report.sections) = 1
    /\ observed.result.summary_report.sections[1].points = <<"p2", "p1">>
    /\ observed.result.summary_report.recommendations = <<"r2", "r1">>

(***************************************************************************)
(* Termination of summarize_workspace.                                     *)
(***************************************************************************)
\* the call has started and has not answered
Running == sw.pc \notin {"idle", "done"}

\* C18: a call that has started eventually answers, with a report or with an
\* error, after at most max_retries (5) invocations of the LLM: it does not
\* stay in the attempting state, nor in any state before it, forever.
C18_CallTerminates ==
    /\ [](llm.calls <= max_retries)
    /\ Running ~> Answered

C18_Witness ==
    /\ Answered
    /\ llm.calls = max_retries
    /\ llm.valid = 0
    /\ llm.last.raised
    /\ Len(sw.nodes) = 2

(***************************************************************************)
(* Properties of the CRUD handlers.                                        *)
(***************************************************************************)
\* the ObjectId an id string denotes, 0 for a string that denotes none
Denotes(s) == IF ObjectIdIsValid(s) THEN ObjectId(s) ELSE 0

\* C19: once delete_workspace has removed a workspace, the store holds no
\* node of that workspace and no message of a node that belonged to it when
\* it was deleted.
C19_DeleteWorkspaceCascades ==
    [][\A w \in db_workspaces \ db_workspaces' :
        /\ \A n \in db_nodes' : Denotes(n.workspace_id) # w.id
        /\ \A n \in NodesOf(w) :
            \A m \in db_messages' : Denotes(m.node_id) # n.id]_vars

\* the persona ids of the specification
PersonaIds == {"1", "2", "3", "4", "5", "6"}

\* the persona id the observed request names, None when it names none
NamedPersona ==
    IF observed.op \in {"create_node", "update_node"}
    THEN observed.args[1] ELSE None

\* C20: every stored node has a persona id in "1".."6"; a create_node or
\* update_node request that names another persona id is rejected and stores
\* nothing, with status 400 when the request is acceptable but for its
\* persona id.
C20_PersonaIdsAreValid ==
    /\ \A n \in db_nodes : n.model_id \in PersonaIds
    /\ NamedPersona \notin PersonaIds \cup {None} =>
        /\ observed.result.status_code \in {400, 404}
        /\ ~observed.result.stored
        /\ observed.result.otherwise \in {200, 201} =>
            observed.result.status_code = 400

C20_Witness ==
    /\ observed.op = "update_node"
    /\ NamedPersona = "7"
    /\ observed.result.otherwise = 200
    /\ observed.result.status_code = 400
    /\ \E n \in db_nodes : n.model_id = "6"

\* no request is in progress
NoRequestInProgress == \A t \in Tasks : requests[t].pc = "idle"

\* C21: whenever no request is in progress, every stored node's workspace_id
\* names an existing workspace and every stored message's node_id names an
\* existing node.
C21_ReferentialIntegrity ==
    NoRequestInProgress =>
        /\ \A n \in db_nodes :
            \E w \in db_workspaces : Denotes(n.workspace_id) = w.id
        /\ \A m \in db_messages :
            \E n \in db_nodes : Denotes(m.node_id) = n.id

\* the caller owns the node the returned message belongs to
OwnedBy(response, user_id) ==
    \E n \in db_nodes :
        /\ n.id = Denotes(response.node_id)
        /\ n.user_id = user_id

\* C22: every message get_messages (or get_message) returns to a caller
\* belongs to a node that caller owns, whatever the node_id filter is and
\* also when it is omitted.
C22_OnlyOwnMessagesReturned ==
    observed.op \in {"get_messages", "get_message"} =>
        \A i \in 1..Len(observed.result.body) :
            OwnedBy(observed.result.body[i], observed.args[2])

\* C23: the users collection holds at most one user per email address.
C23_OneUserPerEmail ==
    \A u \in db_users : \A v \in db_users : u.email = v.email => u = v

\* the node as the update leaves it: only the fields supplied as non-null
\* take the supplied values
UpdatedAsSupplied(n, workspace_id, name, model_id) ==
    [id |-> n.id,
     user_id |-> n.user_id,
     workspace_id |-> IF workspace_id = NoneId THEN n.workspace_id
                      ELSE workspace_id,
     name |-> IF name = None THEN n.name ELSE name,
     model_id |-> IF model_id = None THEN n.model_id ELSE model_id]

\* the reasons for which update_node rejects a request, on the state before
Rejection(user_id, node_id, workspace_id, model_id) ==
    IF node_id = MalformedId THEN 400
    ELSE IF \A n \in db_nodes :
                n.id # Denotes(node_id) \/ n.user_id # user_id THEN 404
    ELSE IF workspace_id = MalformedId THEN 400
    ELSE IF workspace_id # NoneId
            /\ \A w \in db_workspaces :
                w.id # Denotes(workspace_id) \/ w.user_id # user_id THEN 404
    ELSE IF model_id \notin PersonaIds \cup {None} THEN 400
    ELSE 200

\* C24: an update_node request rejected with 400 or 404 leaves the store,
\* and so the node, as it was, whatever valid fields it also supplies; an
\* accepted one changes, in the one node it names, only the fields supplied
\* as non-null.
C24_UpdateNodeFrame ==
    [][observed = Nothing /\ observed'.op = "update_node" =>
        LET user_id == observed'.args[1]
            node_id == observed'.args[2]
            workspace_id == observed'.args[3]
            name == observed'.args[4]
            model_id == observed'.args[5]
        IN /\ observed'.result =
                Rejection(user_id, node_id, workspace_id, model_id)
           /\ observed'.result # 200 => store' = store
           /\ observed'.result = 200 =>
                /\ db_nodes' =
                    {IF n.id = Denotes(node_id)
                        THEN UpdatedAsSupplied(n, workspace_id, name, model_id)
                        ELSE n
                        : n \in db_nodes}
                /\ UNCHANGED <<db_workspaces, db_messages, next_id>>]_vars

\* a request rejected for its persona id that also supplies a new name and
\* a workspace of the caller, for a node of the caller
C24_Witness ==
    /\ observed.op = "update_node"
    /\ observed.result = 400
    /\ observed.args[5] = "7"
    /\ observed.args[4] = "M"
    /\ \E w \in db_workspaces :
        /\ w.id = Denotes(observed.args[3])
        /\ w.user_id = observed.args[1]
    /\ \E n \in db_nodes :
        /\ n.id = Denotes(observed.args[2])
        /\ n.user_id = observed.args[1]
        /\ n.name = "N"
====
